---- MODULE Spec2Model ----
(***************************************************************************)
(* A model of the lox-base tree-walking interpreter: the environment chain *)
(* (lox/ctx.py), the evaluator (lox/ast.py) and the class / function       *)
(* runtime (lox/runtime.py).                                               *)
(*                                                                         *)
(* Runtime objects live in a heap record h:                                *)
(*   h.envs     the Ctx objects, each a scope (name -> value) and a parent *)
(*              (0 models Python's None)                                   *)
(*   h.classes  the LoxClass objects (name, methods, base)                 *)
(*   h.insts    the LoxInstance objects (class, fields)                    *)
(*   h.out      the lines written by print                                 *)
(* A value is a record [k, v]: k its runtime kind, v its payload.          *)
(***************************************************************************)
EXTENDS Integers, Sequences, FiniteSets, TLC

\* h       the heap of runtime objects
\* prog    the program being run (EnvExercise: operations on the Ctx objects)
\* pc      the next statement of the program; the operations done, plus one
\* status  "running", "done", or the class of the exception that ended the run
\* msg     the message of that exception
\* last    the last operation of the environment exercise and its outcome
\* asg     per name, the last assignment to it that succeeded
VARIABLES h, prog, pc, status, msg, last, asg, wr

vars == <<h, prog, pc, status, msg, last, asg, wr>>

\* ------------------------------------------------------------------ bounds

\* Python frames the evaluator may nest before the host raises RecursionError.
MaxDepth == 24
\* Operations of one behaviour of the environment specification.
MaxOps == 5
\* Ctx objects of one behaviour of the environment specification.
MaxEnvs == 4

\* ------------------------------------------------------------------ values

Nil == [k |-> "nil", v |-> 0]
Num(n) == [k |-> "num", v |-> n]
Str(s) == [k |-> "str", v |-> s]
Bool(b) == [k |-> "bool", v |-> b]
\* a Python int, which no literal makes: the host gives one for true.real
PyInt(n) == [k |-> "int", v |-> n]
Native(n) == [k |-> "native", v |-> n]
ClassRef(c) == [k |-> "class", v |-> c]
InstRef(i) == [k |-> "inst", v |-> i]

\* a scope with key k bound to v (dict item assignment)
Put(s, k, v) == [n \in (DOMAIN s) \cup {k} |-> IF n = k THEN v ELSE s[n]]

EmptyScope == [n \in {} |-> Nil]

\* the keys of dict(zip(names, ..)) in the order a Python dict keeps them:
\* each name at the place of its first occurrence
DictKeys(names) ==
    LET firsts == {i \in 1..Len(names) : \A j \in 1..(i - 1) : names[j] # names[i]}
    IN [n \in 1..Cardinality(firsts) |->
          names[CHOOSE i \in firsts : Cardinality({j \in firsts : j <= i}) = n]]

\* the key order of a dict after d[k] = v: a new key goes last
PutKey(keys, k) ==
    IF \E i \in 1..Len(keys) : keys[i] = k THEN keys ELSE Append(keys, k)

\* ------------------------------------------------------------------ lox/ctx.py

\* _Builtins.BUILTINS: the scope of the outermost Ctx
BUILTINS == [n \in {"sqrt", "clock", "max"} |-> Native(n)]

\* Ctx(): an empty scope whose parent is Ctx(BUILTINS, None). A scope is a
\* dict: the function `scope` and the insertion order `keys`.
NewCtx == << [scope |-> BUILTINS, parent |-> 0, keys |-> <<"sqrt", "clock", "max">>],
            [scope |-> EmptyScope, parent |-> 1, keys |-> <<>>] >>

\* Ctx() when the dict of the module's BUILTINS object holds the given
\* bindings: the outermost Ctx is a new object, its scope is that one dict
CtxOver(scope, keys) ==
    << [scope |-> scope, parent |-> 0, keys |-> keys],
       [scope |-> EmptyScope, parent |-> 1, keys |-> <<>>] >>

InitHeap == [envs |-> NewCtx, classes |-> <<>>, insts |-> <<>>, out |-> <<>>,
             pyattrs |-> <<>>]

\* the Ctx the program starts in
GlobalEnv == 2

\* a mutant of CtxGet: the outermost scope that has the key wins
RECURSIVE CtxGetOutermost(_, _, _)
CtxGetOutermost(hp, e, key) ==
    LET up == IF hp.envs[e].parent # 0
              THEN CtxGetOutermost(hp, hp.envs[e].parent, key)
              ELSE [ok |-> FALSE, v |-> Nil]
    IN IF up.ok THEN up
       ELSE IF key \in DOMAIN hp.envs[e].scope
            THEN [ok |-> TRUE, v |-> hp.envs[e].scope[key]]
            ELSE [ok |-> FALSE, v |-> Nil]

\* Ctx.__getitem__: the value of key in the first scope of the chain that has it
RECURSIVE CtxGet(_, _, _)
CtxGet(hp, e, key) ==
    IF key \in DOMAIN hp.envs[e].scope
    THEN [ok |-> TRUE, v |-> hp.envs[e].scope[key]]
    ELSE IF hp.envs[e].parent # 0
         THEN CtxGet(hp, hp.envs[e].parent, key)
         ELSE [ok |-> FALSE, v |-> Nil]

\* a mutant of CtxSet: assigns in the current scope, creating the binding there
CtxSetCreates(hp, e, key, value) ==
    [ok |-> TRUE,
     h |-> [hp EXCEPT !.envs[e].scope = Put(hp.envs[e].scope, key, value),
                      !.envs[e].keys = PutKey(hp.envs[e].keys, key)]]

\* a mutant of CtxSet: only the current scope is looked at; a key bound
\* further out is left as it is
CtxSetLocalOnly(hp, e, key, value) ==
    IF key \in DOMAIN hp.envs[e].scope
    THEN [ok |-> TRUE,
          h |-> [hp EXCEPT !.envs[e].scope = Put(hp.envs[e].scope, key, value)]]
    ELSE [ok |-> TRUE, h |-> hp]

\* Ctx.__setitem__: rebinds key in the first scope of the chain that has it
RECURSIVE CtxSet(_, _, _, _)
CtxSet(hp, e, key, value) ==
    IF key \in DOMAIN hp.envs[e].scope
    THEN [ok |-> TRUE,
          h |-> [hp EXCEPT !.envs[e].scope = Put(hp.envs[e].scope, key, value)]]
    ELSE IF hp.envs[e].parent # 0
         THEN CtxSet(hp, hp.envs[e].parent, key, value)
         ELSE [ok |-> FALSE, h |-> hp]

\* a mutant of is_global: every Ctx that has a parent counts as global
IsGlobalAnyChild(hp, e) == hp.envs[e].parent # 0

\* Ctx.is_global
is_global(hp, e) ==
    IF hp.envs[e].parent = 0
    THEN FALSE
    ELSE hp.envs[hp.envs[e].parent].parent = 0

\* Ctx.var_def
var_def(hp, e, key, value) ==
    IF key \in DOMAIN hp.envs[e].scope /\ ~is_global(hp, e)
    THEN [ok |-> FALSE, h |-> hp]
    ELSE [ok |-> TRUE,
          h |-> [hp EXCEPT !.envs[e].scope = Put(hp.envs[e].scope, key, value),
                           !.envs[e].keys = PutKey(hp.envs[e].keys, key)]]

\* Ctx.push: a new Ctx with the given scope (a dict: the function and its
\* key order), its parent the current one
push(hp, e, scope, keys) ==
    [hp EXCEPT !.envs = Append(hp.envs, [scope |-> scope, parent |-> e, keys |-> keys])]

\* the Ctx that push creates
NewEnv(hp) == Len(hp.envs) + 1

\* ------------------------------------------------------------------ outcomes

\* An evaluation ends normally with a value (st = "ok"), by a raised LoxReturn
\* (st = "return") or by another Python exception (st = "error", err its class).
\* h is the heap as the evaluation left it: side effects survive an exception.
Ok(hp, v) == [st |-> "ok", v |-> v, h |-> hp, err |-> "", msg |-> ""]
Raise(hp, err, text) == [st |-> "error", v |-> Nil, h |-> hp, err |-> err, msg |-> text]
LoxReturn(hp, v) == [st |-> "return", v |-> v, h |-> hp, err |-> "LoxReturn", msg |-> ""]

IsNumber(x) == x.k \in {"num", "int"}

\* the number n as the result of an operation on l and r: a float unless
\* both are Python ints
Arith(l, r, n) == IF l.k = "int" /\ r.k = "int" THEN PyInt(n) ELSE Num(n)

\* ------------------------------------------------------------------ syntax tree (lox/ast.py)

Literal(value) == [t |-> "Literal", value |-> value]
Var(name) == [t |-> "Var", name |-> name]
BinOp(left, right, op) == [t |-> "BinOp", left |-> left, right |-> right, op |-> op]
And(left, right) == [t |-> "And", left |-> left, right |-> right]
Or(left, right) == [t |-> "Or", left |-> left, right |-> right]
UnaryOp(expr, op) == [t |-> "UnaryOp", expr |-> expr, op |-> op]
Call(callee, params) == [t |-> "Call", callee |-> callee, params |-> params]
This == [t |-> "This"]
Super == [t |-> "Super"]
Assign(name, value) == [t |-> "Assign", name |-> name, value |-> value]
Getattr(attr_main, attr) == [t |-> "Getattr", attr_main |-> attr_main, attr |-> attr]
Setattr(target, attr, value) ==
    [t |-> "Setattr", target |-> target, attr |-> attr, value |-> value]
PrintStmt(expr) == [t |-> "Print", expr |-> expr]
Return(expr) == [t |-> "Return", expr |-> expr]
\* has_value is FALSE for `var x;` (VarDef.value is None)
VarDef(name, has_value, value) ==
    [t |-> "VarDef", name |-> name, has_value |-> has_value, value |-> value]
\* has_else is FALSE when If.orelse is None
If(cond, then, has_else, orelse) ==
    [t |-> "If", cond |-> cond, then |-> then, has_else |-> has_else, orelse |-> orelse]
While(cond, body) == [t |-> "While", cond |-> cond, body |-> body]
Block(stmts) == [t |-> "Block", stmts |-> stmts]
Function(name, arg_names, body) ==
    [t |-> "Function", name |-> name, arg_names |-> arg_names, body |-> body]
\* superclass is "" when Class.superclass is None
Class(name, methods, superclass) ==
    [t |-> "Class", name |-> name, methods |-> methods, superclass |-> superclass]
Expression(expr) == [t |-> "Expression", expr |-> expr]

\* ------------------------------------------------------------------ lox/runtime.py: operators

\* runtime.truthy
truthy(x) == ~(x.k = "nil" \/ (x.k = "bool" /\ x.v = FALSE))

\* a mutant of is_falsey: Python's own falsiness, under which 0 and the
\* empty string are false too
IsFalseyPython(x) ==
    \/ x.k = "nil"
    \/ (x.k = "bool" /\ x.v = FALSE)
    \/ (x.k \in {"num", "int"} /\ x.v = 0)
    \/ (x.k = "str" /\ x.v = "")

\* ast.is_falsey
is_falsey(x) == (x.k = "bool" /\ x.v = FALSE) \/ x.k = "nil"

\* a mutant of NumericOp: true and false count as the numbers 1 and 0
NumericOpBoolAsNumber(hp, op, l, r) ==
    IF (IsNumber(l) \/ l.k = "bool") /\ (IsNumber(r) \/ r.k = "bool")
    THEN LET a == IF l.k = "bool" THEN (IF l.v THEN 1 ELSE 0) ELSE l.v
             b == IF r.k = "bool" THEN (IF r.v THEN 1 ELSE 0) ELSE r.v
         IN Ok(hp, CASE op = "sub" -> Num(a - b)
                     [] op = "mul" -> Num(a * b)
                     [] op = "gt" -> Bool(a > b)
                     [] op = "ge" -> Bool(a >= b)
                     [] op = "lt" -> Bool(a < b)
                     [] op = "le" -> Bool(a <= b))
    ELSE Raise(hp, "LoxError", "Operands must be numbers.")

\* runtime.sub, mul, gt, ge, lt, le: numbers only, booleans refused first
NumericOp(hp, op, l, r) ==
    IF l.k = "bool" \/ r.k = "bool"
    THEN Raise(hp, "LoxError", "Operands must be numbers.")
    ELSE IF IsNumber(l) /\ IsNumber(r)
         THEN Ok(hp, CASE op = "sub" -> Arith(l, r, l.v - r.v)
                       [] op = "mul" -> Arith(l, r, l.v * r.v)
                       [] op = "gt" -> Bool(l.v > r.v)
                       [] op = "ge" -> Bool(l.v >= r.v)
                       [] op = "lt" -> Bool(l.v < r.v)
                       [] op = "le" -> Bool(l.v <= r.v))
         ELSE Raise(hp, "LoxError", "Operands must be numbers.")

\* Python's `left == right`, which runtime.eq applies to two values of one
\* type. "T" and "F" are its answers, "E" is a comparison that does not end
\* (RecursionError). The host compares
\*   numbers, strings, None, native functions: by value;
\*   a LoxInstance: by identity;
\*   the dataclass objects (ast.LoxFunction, runtime.LoxFunction, LoxClass,
\*   SuperInstance, InitBoundMethod, Ctx): field by field in the order of
\*   declaration, stopping at the first pair that differs, each pair by
\*   identity first and by == otherwise;
\*   a dict: by length, then item by item in the insertion order of the left.
\* Two records that are equal stand for one object, except the methods of two
\* class objects, which are never one object. Every nested comparison the
\* host makes (of two objects, of their field tuples, of two dicts) is a
\* level of its recursion, counted in d.
RECURSIVE PyEq(_, _, _, _)
RECURSIVE EqCtx(_, _, _, _)
RECURSIVE EqItems(_, _, _, _, _)

\* the value of a number for ==, True and False being 1 and 0
NumVal(x) == IF x.k = "bool" THEN (IF x.v THEN 1 ELSE 0) ELSE x.v

\* two Ctx references (0 for None)
EqCtxRef(hp, c1, c2, d) ==
    IF c1 = c2 THEN "T"
    ELSE IF c1 = 0 \/ c2 = 0 THEN "F"
    ELSE EqCtx(hp, c1, c2, d + 2)

\* the items of the scope of Ctx c1 from the i-th key on against those of c2
EqItems(hp, c1, c2, i, d) ==
    IF i > Len(hp.envs[c1].keys) THEN "T"
    ELSE LET key == hp.envs[c1].keys[i]
         IN IF key \notin DOMAIN hp.envs[c2].scope THEN "F"
            ELSE LET c == PyEq(hp, hp.envs[c1].scope[key], hp.envs[c2].scope[key], d + 1)
                 IN IF c # "T" THEN c ELSE EqItems(hp, c1, c2, i + 1, d)

\* Ctx.__eq__ of the dataclass: scope, then parent
EqCtx(hp, c1, c2, d) ==
    IF d > MaxDepth THEN "E"
    ELSE IF Len(hp.envs[c1].keys) # Len(hp.envs[c2].keys) THEN "F"
    ELSE LET c == EqItems(hp, c1, c2, 1, d + 2)
         IN IF c # "T" THEN c
            ELSE EqCtxRef(hp, hp.envs[c1].parent, hp.envs[c2].parent, d)

\* runtime.LoxFunction.__eq__ for two distinct objects: name, args, body,
\* ctx, then _identity, which differs
EqMethodObjects(hp, l, r, d) ==
    IF l.v.name # r.v.name \/ l.v.args # r.v.args \/ l.v.body # r.v.body THEN "F"
    ELSE IF EqCtxRef(hp, l.v.ctx, r.v.ctx, d) = "E" THEN "E"
    ELSE "F"

\* LoxClass.__eq__ for two distinct class objects: name, methods, base. The
\* methods of the two are distinct objects, so the first item of the left
\* table decides.
EqClassObjects(hp, c1, c2, d) ==
    LET a == hp.classes[c1]
        b == hp.classes[c2]
    IN IF a.name # b.name THEN "F"
       ELSE IF Len(a.keys) # Len(b.keys) THEN "F"
       ELSE IF Len(a.keys) > 0
            THEN IF a.keys[1] \notin DOMAIN b.methods THEN "F"
                 ELSE EqMethodObjects(hp, a.methods[a.keys[1]], b.methods[a.keys[1]], d + 1)
            ELSE PyEq(hp, a.base, b.base, d + 1)

PyEq(hp, l, r, d) ==
    IF d > MaxDepth THEN "E"
    ELSE IF l.k \in {"num", "int", "bool"} /\ r.k \in {"num", "int", "bool"}
    THEN (IF NumVal(l) = NumVal(r) THEN "T" ELSE "F")
    ELSE IF l.k # r.k THEN "F"
    ELSE CASE l.k = "fn" ->
                \* ast.LoxFunction: arg_names, body, ctx, name
                IF l = r THEN "T"
                ELSE IF l.v.args # r.v.args \/ l.v.body # r.v.body THEN "F"
                ELSE LET c == EqCtxRef(hp, l.v.ctx, r.v.ctx, d)
                     IN IF c # "T" THEN c
                        ELSE IF l.v.name = r.v.name THEN "T" ELSE "F"
           [] l.k = "method" ->
                IF l = r THEN "T" ELSE EqMethodObjects(hp, l, r, d)
           [] l.k = "class" ->
                IF l.v = r.v THEN "T" ELSE EqClassObjects(hp, l.v, r.v, d)
           [] l.k = "super" ->
                \* SuperInstance: instance, superclass
                IF l.v.instance # r.v.instance THEN "F"
                ELSE PyEq(hp, l.v.superclass, r.v.superclass, d + 1)
           [] l.k = "initbound" ->
                \* InitBoundMethod: instance, method
                IF l.v.instance # r.v.instance THEN "F"
                ELSE IF l.v.method = r.v.method THEN "T"
                ELSE EqMethodObjects(hp, l.v.method, r.v.method, d + 1)
           [] OTHER -> (IF l.v = r.v THEN "T" ELSE "F")

\* a mutant of add: Python's +, under which a boolean counts as 1 or 0
AddBoolAsNumber(hp, l, r) ==
    IF l.k \in {"num", "int", "bool"} /\ r.k \in {"num", "int", "bool"}
    THEN Ok(hp, Num(NumVal(l) + NumVal(r)))
    ELSE IF l.k = "str" /\ r.k = "str"
         THEN Ok(hp, Str(l.v \o r.v))
         ELSE Raise(hp, "LoxError", "Operands must be two numbers or two strings.")

\* runtime.add
add(hp, l, r) ==
    IF l.k = "bool" \/ r.k = "bool"
    THEN Raise(hp, "LoxError", "Operands must be two numbers or two strings.")
    ELSE IF IsNumber(l) /\ IsNumber(r)
         THEN Ok(hp, Arith(l, r, l.v + r.v))
         ELSE IF l.k = "str" /\ r.k = "str"
              THEN Ok(hp, Str(l.v \o r.v))
              ELSE Raise(hp, "LoxError", "Operands must be two numbers or two strings.")

\* the model's numbers are the whole ones: left / right has a value in it
\* when it is whole, as it is for every division the programs make
Quotient(a, b) ==
    CHOOSE q \in (0 - (a * a))..(a * a) : q * b = a

\* a mutant of truediv: the divisor is not checked, and the host's division
\* raises its own ZeroDivisionError
TruedivUnchecked(hp, l, r) ==
    IF l.k = "bool" \/ r.k = "bool"
    THEN Raise(hp, "LoxError", "Operands must be numbers.")
    ELSE IF IsNumber(l) /\ IsNumber(r)
         THEN IF r.v = 0
              THEN Raise(hp, "ZeroDivisionError", "float division by zero")
              ELSE Ok(hp, Num(Quotient(l.v, r.v)))
         ELSE Raise(hp, "LoxError", "Operands must be numbers.")

\* runtime.truediv: numbers only, booleans refused first, a zero divisor
\* refused
truediv(hp, l, r) ==
    IF l.k = "bool" \/ r.k = "bool"
    THEN Raise(hp, "LoxError", "Operands must be numbers.")
    ELSE IF IsNumber(l) /\ IsNumber(r)
         THEN IF r.v = 0
              THEN Raise(hp, "LoxError", "Divisão por zero.")
              ELSE Ok(hp, Num(Quotient(l.v, r.v)))
         ELSE Raise(hp, "LoxError", "Operands must be numbers.")

\* runtime.eq: values of different types are different, values of one type
\* are compared by ==
eq(hp, l, r) ==
    IF l.k # r.k THEN Ok(hp, Bool(FALSE))
    ELSE LET c == PyEq(hp, l, r, 1)
         IN IF c = "E" THEN Raise(hp, "RecursionError", "")
            ELSE Ok(hp, Bool(c = "T"))

\* runtime.ne: not eq(left, right)
ne(hp, l, r) ==
    LET c == eq(hp, l, r)
    IN IF c.st # "ok" THEN c ELSE Ok(hp, Bool(~c.v.v))

\* runtime.neg
neg(hp, x) ==
    IF x.k = "bool"
    THEN Raise(hp, "LoxError", "Operand must be a number.")
    ELSE IF IsNumber(x)
         THEN Ok(hp, Arith(x, x, 0 - x.v))
         ELSE Raise(hp, "LoxError", "Operand must be a number.")

\* runtime.not_
not_(x) == ~truthy(x)

\* the operator a BinOp node carries, applied
ApplyBinOp(hp, op, l, r) ==
    CASE op = "add" -> add(hp, l, r)
      [] op = "truediv" -> truediv(hp, l, r)
      [] op = "eq" -> eq(hp, l, r)
      [] op = "ne" -> ne(hp, l, r)
      [] OTHER -> NumericOp(hp, op, l, r)

\* the operator a UnaryOp node carries, applied
ApplyUnaryOp(hp, op, x) ==
    IF op = "neg" THEN neg(hp, x) ELSE Ok(hp, Bool(not_(x)))

\* the attributes setattr has put on Python objects: the entries of
\* hp.pyattrs for the object and the name, the latest last
PyStored(hp, obj, attr) ==
    {i \in 1..Len(hp.pyattrs) : hp.pyattrs[i].obj = obj /\ hp.pyattrs[i].attr = attr}

PyLatest(hp, obj, attr) ==
    hp.pyattrs[CHOOSE i \in PyStored(hp, obj, attr) :
                 \A j \in PyStored(hp, obj, attr) : j <= i].val

RECURSIVE show(_, _)

\* Python's str(value), which the __str__ of a function applies to its name
PyStr(hp, x) ==
    CASE x.k = "str" -> x.v
      [] x.k = "num" -> ToString(x.v) \o ".0"
      [] x.k = "nil" -> "None"
      [] x.k = "bool" -> (IF x.v THEN "True" ELSE "False")
      [] OTHER -> show(hp, x)

\* runtime.show
show(hp, x) ==
    CASE x.k = "nil" -> "nil"
      [] x.k = "bool" -> (IF x.v THEN "true" ELSE "false")
      [] x.k = "num" -> ToString(x.v)
      [] x.k = "int" -> ToString(x.v)
      [] x.k = "str" -> x.v
      [] x.k = "class" -> hp.classes[x.v].name
      [] x.k = "inst" -> hp.classes[hp.insts[x.v].cls].name \o " instance"
      [] x.k = "fn" -> "<fn " \o x.v.name \o ">"
      [] x.k = "method" ->
            "<fn " \o (IF PyStored(hp, x, "name") # {}
                       THEN PyStr(hp, PyLatest(hp, x, "name"))
                       ELSE x.v.name) \o ">"
      [] x.k = "native" -> "<native fn>"
      [] OTHER -> "<object>"

\* runtime.print
print(hp, x) == [hp EXCEPT !.out = Append(hp.out, show(hp, x))]

\* ------------------------------------------------------------------ lox/runtime.py: classes

\* ast.LoxFunction, the value a `fun` declaration makes
AstLoxFunction(arg_names, body, ctx, name) ==
    [k |-> "fn", v |-> [name |-> name, args |-> arg_names, body |-> body, ctx |-> ctx]]

\* runtime.LoxFunction, the value of a method of a class
LoxFunction(name, args, body, ctx) ==
    [k |-> "method", v |-> [name |-> name, args |-> args, body |-> body, ctx |-> ctx]]

\* runtime.SuperInstance
SuperInstance(instance, superclass) ==
    [k |-> "super", v |-> [instance |-> instance, superclass |-> superclass]]

\* runtime.InitBoundMethod
InitBoundMethod(instance, method) ==
    [k |-> "initbound", v |-> [instance |-> instance, method |-> method]]

\* LoxClass(name, methods, base): the heap with the new class object appended
\* (methods is a dict: the function and its key order)
LoxClass(hp, name, methods, keys, base) ==
    [hp EXCEPT !.classes = Append(hp.classes,
                                  [name |-> name, methods |-> methods, keys |-> keys,
                                   base |-> base])]

\* LoxInstance(lox_class): the heap with the new instance appended, no field set
LoxInstance(hp, cls) ==
    [hp EXCEPT !.insts = Append(hp.insts, [cls |-> cls, fields |-> EmptyScope])]

\* a mutant of get_method_with_class: the chain of bases is searched before
\* the class's own table, so the most distant ancestor wins
RECURSIVE GetMethodBaseFirst(_, _, _)
GetMethodBaseFirst(hp, c, name) ==
    LET up == IF hp.classes[c].base.k = "class"
              THEN GetMethodBaseFirst(hp, hp.classes[c].base.v, name)
              ELSE [st |-> "LoxError", method |-> Nil, cls |-> 0]
    IN IF up.st = "ok" THEN up
       ELSE IF name \in DOMAIN hp.classes[c].methods
            THEN [st |-> "ok", method |-> hp.classes[c].methods[name], cls |-> c]
            ELSE up

\* LoxClass.get_method_with_class: the method and the class that defines it.
\* base is a value: Nil for None; a base that is no class has no such method
\* (AttributeError).
RECURSIVE get_method_with_class(_, _, _)
get_method_with_class(hp, c, name) ==
    IF name \in DOMAIN hp.classes[c].methods
    THEN [st |-> "ok", method |-> hp.classes[c].methods[name], cls |-> c]
    ELSE IF hp.classes[c].base.k # "nil"
         THEN IF hp.classes[c].base.k = "class"
              THEN get_method_with_class(hp, hp.classes[c].base.v, name)
              ELSE [st |-> "AttributeError", method |-> Nil, cls |-> 0]
         ELSE [st |-> "LoxError", method |-> Nil, cls |-> 0]

\* LoxClass.get_method
get_method(hp, c, name) == get_method_with_class(hp, c, name)

\* LoxFunction.bind_with_class: a copy of the method whose ctx is a new child
\* of the method's ctx holding `this` and, when the defining class is given
\* and has a base, `super`. defining_class is 0 for None.
bind_with_class(hp, method, obj, defining_class) ==
    LET withSuper == defining_class # 0 /\ hp.classes[defining_class].base.k # "nil"
        context_vars ==
            IF withSuper
            THEN [n \in {"this", "super"} |->
                    IF n = "this" THEN obj
                    ELSE SuperInstance(obj, hp.classes[defining_class].base)]
            ELSE [n \in {"this"} |-> obj]
    IN [h |-> push(hp, method.v.ctx, context_vars,
                   IF withSuper THEN <<"this", "super">> ELSE <<"this">>),
        v |-> LoxFunction(method.v.name, method.v.args, method.v.body, NewEnv(hp))]

\* LoxFunction.bind: binds with the class of obj as the defining class
bind(hp, method, obj) ==
    bind_with_class(hp, method, obj,
                    IF obj.k = "inst" THEN hp.insts[obj.v].cls ELSE 0)

\* LoxInstance.set
InstanceSet(hp, i, name, value) ==
    [hp EXCEPT !.insts[i].fields = Put(hp.insts[i].fields, name, value)]

\* a mutant of InstanceGet: the method chain is consulted before the fields
InstanceGetMethodFirst(hp, i, name) ==
    LET r == get_method_with_class(hp, hp.insts[i].cls, name)
    IN IF r.st = "ok"
       THEN LET b == bind_with_class(hp, r.method, InstRef(i), r.cls)
            IN Ok(b.h, b.v)
       ELSE IF name \in DOMAIN hp.insts[i].fields
            THEN Ok(hp, hp.insts[i].fields[name])
            ELSE Raise(hp, "LoxError", "Undefined property '" \o name \o "'.")

\* LoxInstance.get: a field, else the method of the class chain, bound
InstanceGet(hp, i, name) ==
    IF name \in DOMAIN hp.insts[i].fields
    THEN Ok(hp, hp.insts[i].fields[name])
    ELSE LET r == get_method_with_class(hp, hp.insts[i].cls, name)
         IN IF r.st = "LoxError"
            THEN Raise(hp, "LoxError", "Undefined property '" \o name \o "'.")
            ELSE IF r.st # "ok"
                 THEN Raise(hp, r.st, "")
                 ELSE IF name = "init"
                      THEN Ok(hp, InitBoundMethod(InstRef(i), r.method))
                      ELSE LET b == bind_with_class(hp, r.method, InstRef(i), r.cls)
                           IN Ok(b.h, b.v)

\* a mutant of SuperGet: the method is bound to the proxy
SuperGetBindsProxy(hp, sup, name) ==
    IF sup.v.superclass.k # "class"
    THEN Raise(hp, "AttributeError", "")
    ELSE LET r == get_method(hp, sup.v.superclass.v, name)
         IN IF r.st # "ok"
            THEN Raise(hp, r.st, "")
            ELSE LET b == bind(hp, r.method, sup)
                 IN Ok(b.h, b.v)

\* SuperInstance.get: the method of the superclass chain, bound to the instance
SuperGet(hp, sup, name) ==
    IF sup.v.superclass.k # "class"
    THEN Raise(hp, "AttributeError", "")
    ELSE LET r == get_method(hp, sup.v.superclass.v, name)
         IN IF r.st = "LoxError"
            THEN Raise(hp, "LoxError", "Undefined property '" \o name \o "'.")
            ELSE IF r.st # "ok"
                 THEN Raise(hp, r.st, "")
                 ELSE LET b == bind(hp, r.method, sup.v.instance)
                      IN Ok(b.h, b.v)

\* ------------------------------------------------------------------ calls

\* dict(zip(names, values)) for sequences of one length
Zip(names, values) ==
    [n \in {names[i] : i \in 1..Len(names)} |->
        values[CHOOSE i \in 1..Len(names) :
                 names[i] = n /\ \A j \in 1..Len(names) : names[j] = n => j <= i]]

\* a mutant of UserCallEnv: the parameters are bound in the captured Ctx itself
UserCallEnvNoPush(hp, f, values) ==
    [h |-> [hp EXCEPT !.envs[f.v.ctx].scope =
                 [n \in (DOMAIN hp.envs[f.v.ctx].scope) \cup DOMAIN Zip(f.v.args, values) |->
                     IF n \in DOMAIN Zip(f.v.args, values)
                     THEN Zip(f.v.args, values)[n]
                     ELSE hp.envs[f.v.ctx].scope[n]],
                 !.envs[f.v.ctx].keys = hp.envs[f.v.ctx].keys \o DictKeys(f.v.args)],
     env |-> f.v.ctx]

\* a mutant of UserCallEnv: the call runs under a copy of the captured Ctx
UserCallEnvSnapshot(hp, f, values) ==
    LET copy == push(hp, hp.envs[f.v.ctx].parent, hp.envs[f.v.ctx].scope,
                     hp.envs[f.v.ctx].keys)
    IN [h |-> push(copy, NewEnv(hp), Zip(f.v.args, values), DictKeys(f.v.args)),
        env |-> NewEnv(copy)]

\* ast.LoxFunction.__call__, the Ctx of a call: Ctx(scope, self.ctx)
UserCallEnv(hp, f, values) ==
    [h |-> push(hp, f.v.ctx, Zip(f.v.args, values), DictKeys(f.v.args)),
     env |-> NewEnv(hp)]

\* runtime.LoxFunction.__call__, the Ctx of a call: self.ctx.push(env)
MethodCallEnv(hp, f, values) ==
    [h |-> push(hp, f.v.ctx, Zip(f.v.args, values), DictKeys(f.v.args)),
     env |-> NewEnv(hp)]

\* ast.LoxFunction.__call__: len(names) != len(values) raises TypeError
UserArityOk(f, values) == Len(f.v.args) = Len(values)

\* runtime.LoxFunction.__call__: zip(..., strict=True) raises ValueError when
\* the lengths differ
MethodArityOk(f, values) == Len(f.v.args) = Len(values)

\* a mutant of CallOutcome: the call does not catch LoxReturn
CallOutcomeNoCatch(r) ==
    IF r.st = "ok" THEN Ok(r.h, Nil) ELSE r

\* a body's outcome as the call's: a LoxReturn is caught and gives its value,
\* a body that ends gives None, any other exception goes on
CallOutcome(r) ==
    IF r.st = "return" THEN Ok(r.h, r.v)
    ELSE IF r.st = "ok" THEN Ok(r.h, Nil)
    ELSE r

\* a mutant of ClassCallOutcome: a class with no init takes any arguments
ClassCallOutcomeAnyArgs(r, instance, nargs) ==
    IF r.st = "error" /\ r.err = "LoxError"
    THEN Ok(r.h, instance)
    ELSE IF r.st = "ok" THEN Ok(r.h, instance) ELSE r

\* LoxClass.__call__, after the try block ended as r: a LoxError raised in it
\* (by the lookup of init or by the body of init) is caught, and is replaced
\* by an arity error when arguments were passed; the call gives the instance
ClassCallOutcome(r, instance, nargs) ==
    IF r.st = "error" /\ r.err = "LoxError"
    THEN IF nargs > 0
         THEN Raise(r.h, "LoxError",
                    "Expected 0 arguments but got " \o ToString(nargs) \o ".")
         ELSE Ok(r.h, instance)
    ELSE IF r.st = "ok" THEN Ok(r.h, instance) ELSE r

\* a mutant of BlockEnv: the block runs in the enclosing Ctx
BlockEnvShared(hp, e) == [env |-> e, h |-> hp]

\* Block.eval, `new_ctx = ctx.push({})`: the Ctx the statements run in
BlockEnv(hp, e) == [env |-> NewEnv(hp), h |-> push(hp, e, EmptyScope, <<>>)]

\* the members Python finds on a value that is no LoxInstance, besides the
\* attributes setattr has put on it; what is not listed raises AttributeError
PyMembers(x) ==
    {"__class__"} \cup
    CASE x.k = "super" -> {"instance", "superclass", "get"}
      [] x.k = "class" -> {"name", "methods", "base", "get_method", "get_method_with_class"}
      [] x.k = "fn" -> {"arg_names", "body", "ctx", "name"}
      [] x.k = "method" -> {"name", "args", "body", "ctx", "closure", "call", "bind",
                            "bind_with_class"}
      [] x.k = "initbound" -> {"instance", "method"}
      [] x.k = "num" -> {"real", "imag", "conjugate", "is_integer", "hex"}
      [] x.k \in {"bool", "int"} -> {"real", "imag", "conjugate", "numerator", "denominator"}
      [] x.k = "str" -> {"upper", "lower", "strip", "split", "join"}
      [] OTHER -> {}

\* a member of a Python object that is no lox value; no program calls one
PyObject(x, attr) == [k |-> "py", v |-> <<x.k, attr>>]

\* getattr(obj, attr) for an obj that is no LoxInstance
PyGetattr(hp, obj, attr) ==
    IF PyStored(hp, obj, attr) # {} /\ attr # "closure"
    THEN Ok(hp, PyLatest(hp, obj, attr))
    ELSE
    IF attr \in PyMembers(obj)
    THEN CASE obj.k = "super" /\ attr = "instance" -> Ok(hp, obj.v.instance)
           [] obj.k = "super" /\ attr = "superclass" -> Ok(hp, obj.v.superclass)
           [] obj.k = "initbound" /\ attr = "instance" -> Ok(hp, obj.v.instance)
           [] obj.k = "initbound" /\ attr = "method" -> Ok(hp, obj.v.method)
           [] obj.k = "class" /\ attr = "name" -> Ok(hp, Str(hp.classes[obj.v].name))
           [] obj.k = "class" /\ attr = "base" -> Ok(hp, hp.classes[obj.v].base)
           [] obj.k \in {"fn", "method"} /\ attr = "name" -> Ok(hp, Str(obj.v.name))
           [] obj.k \in {"num", "int"} /\ attr = "real" -> Ok(hp, obj)
           [] obj.k = "bool" /\ attr = "real" -> Ok(hp, PyInt(IF obj.v THEN 1 ELSE 0))
           [] OTHER -> Ok(hp, PyObject(obj, attr))
    ELSE IF obj.k = "super"
         THEN SuperGet(hp, obj, attr)
         ELSE Raise(hp, "AttributeError", attr)

\* setattr(target, attr, value) for a target that is no LoxInstance, LoxClass
\* or ast.LoxFunction: the objects of the runtime's own classes (a bound
\* method, the super proxy, a bound init) take the attribute, the host's
\* values refuse it. The programs set no attribute that a call reads
\* (args, body, ctx).
PySetattr(hp, target, attr, value) ==
    IF attr = "__class__"
    THEN Raise(hp, "TypeError", attr)
    ELSE IF target.k \in {"method", "super", "initbound"}
            /\ ~(target.k = "method" /\ attr = "closure")
         THEN Ok([hp EXCEPT !.pyattrs =
                     Append(hp.pyattrs, [obj |-> target, attr |-> attr, val |-> value])],
                 value)
         ELSE Raise(hp, "AttributeError", attr)

\* ------------------------------------------------------------------ the evaluator

\* d counts the nested eval / call frames: past MaxDepth the host raises
\* RecursionError.
RECURSIVE Eval(_, _, _, _)
RECURSIVE ExecStmts(_, _, _, _, _)
RECURSIVE EvalParams(_, _, _, _, _, _)
RECURSIVE CallValue(_, _, _, _)
RECURSIVE ClassCall(_, _, _, _)

\* `for stmt in stmts: stmt.eval(ctx)`, from statement i on
ExecStmts(stmts, i, e, hp, d) ==
    IF i > Len(stmts)
    THEN Ok(hp, Nil)
    ELSE LET r == Eval(stmts[i], e, hp, d)
         IN IF r.st # "ok" THEN r ELSE ExecStmts(stmts, i + 1, e, r.h, d)

\* Call.eval, `[param.eval(ctx) for param in self.params]`: left to right;
\* v is the list of the values
EvalParams(params, i, e, hp, d, acc) ==
    IF i > Len(params)
    THEN Ok(hp, acc)
    ELSE LET r == Eval(params[i], e, hp, d)
         IN IF r.st # "ok" THEN r
            ELSE EvalParams(params, i + 1, e, r.h, d, Append(acc, r.v))

\* host functions of BUILTINS
NativeCall(hp, name, values) ==
    IF name = "max" /\ Len(values) = 2 /\ IsNumber(values[1]) /\ IsNumber(values[2])
    THEN Ok(hp, IF values[1].v >= values[2].v THEN values[1] ELSE values[2])
    ELSE IF name = "clock" /\ Len(values) = 0
         THEN Ok(hp, Num(0))
         ELSE IF name = "sqrt" /\ Len(values) = 1 /\ IsNumber(values[1])
                 /\ values[1].v \in {0, 1}
              THEN Ok(hp, values[1])
              ELSE Raise(hp, "TypeError", "")

\* LoxClass.__call__
ClassCall(c, values, hp, d) ==
    LET h1 == LoxInstance(hp, c)
        instance == InstRef(Len(hp.insts) + 1)
        m == get_method(h1, c, "init")
        tried ==
            IF m.st = "LoxError"
            THEN Raise(h1, "LoxError", "Undefined property 'init'.")
            ELSE IF m.st # "ok"
                 THEN Raise(h1, m.st, "")
                 ELSE LET b == bind(h1, m.method, instance)
                      IN CallValue(b.v, values, b.h, d + 1)
    IN ClassCallOutcome(tried, instance, Len(values))

\* func(*args) for the value func
CallValue(f, values, hp, d) ==
    IF d > MaxDepth THEN Raise(hp, "RecursionError", "")
    ELSE
    CASE f.k = "fn" ->
            \* ast.LoxFunction.__call__
            IF ~UserArityOk(f, values)
            THEN Raise(hp, "TypeError", "esperava argumentos")
            ELSE LET c == UserCallEnv(hp, f, values)
                 IN CallOutcome(ExecStmts(f.v.body, 1, c.env, c.h, d + 1))
      [] f.k = "method" ->
            \* runtime.LoxFunction.__call__
            IF ~MethodArityOk(f, values)
            THEN Raise(hp, "ValueError", "zip() argument 2")
            ELSE LET c == MethodCallEnv(hp, f, values)
                 IN CallOutcome(ExecStmts(f.v.body, 1, c.env, c.h, d + 1))
      [] f.k = "class" -> ClassCall(f.v, values, hp, d + 1)
      [] f.k = "initbound" ->
            \* InitBoundMethod.__call__
            LET b == bind(hp, f.v.method, f.v.instance)
                r == CallValue(b.v, values, b.h, d + 1)
            IN IF r.st = "ok" THEN Ok(r.h, f.v.instance) ELSE r
      [] f.k = "native" -> NativeCall(hp, f.v, values)
      [] OTHER -> Raise(hp, "TypeError", "object is not callable")

\* node.eval(ctx), for every node class of lox/ast.py
Eval(node, e, hp, d) ==
    IF d > MaxDepth THEN Raise(hp, "RecursionError", "")
    ELSE
    CASE node.t = "Literal" -> Ok(hp, node.value)
      [] node.t = "Var" ->
            LET g == CtxGet(hp, e, node.name)
            IN IF g.ok THEN Ok(hp, g.v)
               ELSE Raise(hp, "NameError", node.name)
      [] node.t = "BinOp" ->
            LET l == Eval(node.left, e, hp, d + 1)
            IN IF l.st # "ok" THEN l
               ELSE LET r == Eval(node.right, e, l.h, d + 1)
                    IN IF r.st # "ok" THEN r
                       ELSE ApplyBinOp(r.h, node.op, l.v, r.v)
      [] node.t = "And" ->
            LET l == Eval(node.left, e, hp, d + 1)
            IN IF l.st # "ok" THEN l
               ELSE IF is_falsey(l.v) THEN l
               ELSE Eval(node.right, e, l.h, d + 1)
      [] node.t = "Or" ->
            LET l == Eval(node.left, e, hp, d + 1)
            IN IF l.st # "ok" THEN l
               ELSE IF ~is_falsey(l.v) THEN l
               ELSE Eval(node.right, e, l.h, d + 1)
      [] node.t = "UnaryOp" ->
            LET x == Eval(node.expr, e, hp, d + 1)
            IN IF x.st # "ok" THEN x ELSE ApplyUnaryOp(x.h, node.op, x.v)
      [] node.t = "Call" ->
            LET callee == node.callee
                \* Call._eval_callee
                func ==
                    CASE callee.t = "Var" ->
                            LET g == CtxGet(hp, e, callee.name)
                            IN IF g.ok THEN Ok(hp, g.v)
                               ELSE Raise(hp, "KeyError", callee.name)
                      [] callee.t = "Getattr" ->
                            LET obj == Eval(callee.attr_main, e, hp, d + 1)
                            IN IF obj.st # "ok" THEN obj
                               ELSE IF obj.v.k = "inst"
                                    THEN InstanceGet(obj.h, obj.v.v, callee.attr)
                                    ELSE PyGetattr(obj.h, obj.v, callee.attr)
                      [] callee.t = "Call" -> Eval(callee, e, hp, d + 1)
                      [] OTHER -> Raise(hp, "RuntimeError", "Unsupported callee type")
            IN IF func.st # "ok" THEN func
               ELSE LET args == EvalParams(node.params, 1, e, func.h, d + 1, <<>>)
                    IN IF args.st # "ok" THEN args
                       ELSE CallValue(func.v, args.v, args.h, d + 1)
      [] node.t = "This" ->
            LET g == CtxGet(hp, e, "this")
            IN IF g.ok THEN Ok(hp, g.v)
               ELSE Raise(hp, "RuntimeError", "this not found in context")
      [] node.t = "Super" ->
            LET g == CtxGet(hp, e, "super")
            IN IF g.ok THEN Ok(hp, g.v)
               ELSE Raise(hp, "RuntimeError", "super not found in context")
      [] node.t = "Assign" ->
            LET x == Eval(node.value, e, hp, d + 1)
            IN IF x.st # "ok" THEN x
               ELSE LET a == CtxSet(x.h, e, node.name, x.v)
                    IN IF a.ok THEN Ok(a.h, x.v)
                       ELSE Raise(a.h, "KeyError", node.name)
      [] node.t = "Getattr" ->
            LET obj == Eval(node.attr_main, e, hp, d + 1)
            IN IF obj.st # "ok" THEN obj
               ELSE IF obj.v.k = "inst"
                    THEN InstanceGet(obj.h, obj.v.v, node.attr)
                    ELSE PyGetattr(obj.h, obj.v, node.attr)
      [] node.t = "Setattr" ->
            LET target == Eval(node.target, e, hp, d + 1)
            IN IF target.st # "ok" THEN target
               ELSE LET x == Eval(node.value, e, target.h, d + 1)
                    IN IF x.st # "ok" THEN x
                       ELSE IF target.v.k = "inst"
                            THEN Ok(InstanceSet(x.h, target.v.v, node.attr, x.v), x.v)
                            ELSE IF target.v.k \in {"class", "fn"}
                                 THEN Raise(x.h, "LoxError", "Only instances have fields.")
                                 ELSE PySetattr(x.h, target.v, node.attr, x.v)
      [] node.t = "Print" ->
            LET x == Eval(node.expr, e, hp, d + 1)
            IN IF x.st # "ok" THEN x ELSE Ok(print(x.h, x.v), Nil)
      [] node.t = "Return" ->
            LET x == Eval(node.expr, e, hp, d + 1)
            IN IF x.st # "ok" THEN x ELSE LoxReturn(x.h, x.v)
      [] node.t = "VarDef" ->
            LET x == IF node.has_value THEN Eval(node.value, e, hp, d + 1)
                     ELSE Ok(hp, Nil)
            IN IF x.st # "ok" THEN x
               ELSE LET r == var_def(x.h, e, node.name, x.v)
                    IN IF r.ok THEN Ok(r.h, Nil)
                       ELSE Raise(r.h, "NameError", node.name)
      [] node.t = "If" ->
            LET c == Eval(node.cond, e, hp, d + 1)
            IN IF c.st # "ok" THEN c
               ELSE IF truthy(c.v) THEN Eval(node.then, e, c.h, d + 1)
               ELSE IF node.has_else THEN Eval(node.orelse, e, c.h, d + 1)
               ELSE Ok(c.h, Nil)
      [] node.t = "While" ->
            LET c == Eval(node.cond, e, hp, d + 1)
            IN IF c.st # "ok" THEN c
               ELSE IF truthy(c.v)
                    THEN LET b == Eval(node.body, e, c.h, d + 1)
                         IN IF b.st # "ok" THEN b ELSE Eval(node, e, b.h, d + 1)
                    ELSE Ok(c.h, Nil)
      [] node.t = "Block" ->
            LET new_ctx == BlockEnv(hp, e)
            IN ExecStmts(node.stmts, 1, new_ctx.env, new_ctx.h, d + 1)
      [] node.t = "Function" ->
            LET func == AstLoxFunction(node.arg_names, node.body, e, node.name)
                r == var_def(hp, e, node.name, func)
            IN IF r.ok THEN Ok(r.h, func) ELSE Raise(r.h, "NameError", node.name)
      [] node.t = "Class" ->
            LET superclass ==
                    IF node.superclass # ""
                    THEN CtxGet(hp, e, node.superclass)
                    ELSE [ok |-> TRUE, v |-> Nil]
                methods ==
                    [n \in {node.methods[i].name : i \in 1..Len(node.methods)} |->
                        LET m == node.methods[
                                   CHOOSE i \in 1..Len(node.methods) :
                                     /\ node.methods[i].name = n
                                     /\ \A j \in 1..Len(node.methods) :
                                          node.methods[j].name = n => j <= i]
                        IN LoxFunction(m.name, m.arg_names, m.body, e)]
            IN IF ~superclass.ok
               THEN Raise(hp, "KeyError", node.superclass)
               ELSE LET h1 == LoxClass(hp, node.name, methods,
                                          DictKeys([i \in 1..Len(node.methods) |->
                                                      node.methods[i].name]),
                                          superclass.v)
                        lox_class == ClassRef(Len(hp.classes) + 1)
                        r == var_def(h1, e, node.name, lox_class)
                    IN IF r.ok THEN Ok(r.h, lox_class)
                       ELSE Raise(r.h, "NameError", node.name)
      [] node.t = "Expression" -> Eval(node.expr, e, hp, d + 1)

\* ------------------------------------------------------------------ programs

\* Longest inheritance chain of the greet programs.
MaxChain == 4
\* Calls of the closure in the counter programs.
MaxCalls == 3
\* Most parameters and most arguments of a call in the call programs.
MaxArity == 2

ClassNames == <<"A", "B", "C", "D", "E">>
ParamNames == <<"x", "y", "z">>

\* the first n elements of a sequence
Take(seq, n) == [i \in 1..n |-> seq[i]]

\* class A { greet() { return "A"; } }
\* class B < A { greet() { return super.greet() + "B"; } }   and so on
GreetClass(i) ==
    IF i = 1
    THEN Class(ClassNames[1],
               << Function("greet", <<>>, << Return(Literal(Str(ClassNames[1]))) >>) >>,
               "")
    ELSE Class(ClassNames[i],
               << Function("greet", <<>>,
                    << Return(BinOp(Call(Getattr(Super, "greet"), <<>>),
                                    Literal(Str(ClassNames[i])), "add")) >>) >>,
               ClassNames[i - 1])

\* the chain of n classes, then  var r = <last class>().greet();
GreetProgram(n) ==
    [i \in 1..n |-> GreetClass(i)]
    \o << VarDef("r", TRUE,
                 Call(Getattr(Call(Var(ClassNames[n]), <<>>), "greet"), <<>>)) >>

\* what the chain of n classes is to answer: "A", "AB", "ABC", ...
RECURSIVE GreetExpected(_)
GreetExpected(n) == IF n = 0 THEN "" ELSE GreetExpected(n - 1) \o ClassNames[n]

\* the body of an init with k parameters: it sets field `f` to its first
\* argument (7 when it has none), then
\*   "end"     ends
\*   "return"  executes `return;` before a statement that would set field g
\*   "add"     evaluates 1 + "a"      (a LoxError of runtime.add)
\*   "prop"    evaluates this.nope    (a LoxError of LoxInstance.get)
\*   "name"    evaluates nope         (a NameError of Var.eval)
\* and the failing bodies would set field g afterwards
InitBody(k, body, field) ==
    << Expression(Setattr(This, field,
                          IF k > 0 THEN Var(ParamNames[1]) ELSE Literal(Num(7)))) >>
    \o (CASE body = "end" -> <<>>
          [] body = "return" -> << Return(Literal(Nil)) >>
          [] body = "add" ->
               << Expression(BinOp(Literal(Num(1)), Literal(Str("a")), "add")) >>
          [] body = "prop" -> << Expression(Getattr(This, "nope")) >>
          [] body = "name" -> << Expression(Var("nope")) >>)
    \o (IF body = "end" THEN <<>>
        ELSE << Expression(Setattr(This, "g", Literal(Num(1)))) >>)

InitMethod(k, body, field) == Function("init", Take(ParamNames, k), InitBody(k, body, field))

\* class P { init?.. }  class K < P { init?.. }  var o = K(1, .., n);  var after = 1;
\* where = 0: no init; 1: init in K; 2: init in P only; 3: init in both
NewProgram(where, k, n, body) ==
    << Class("P", IF where \in {2, 3} THEN << InitMethod(k, body, "p") >> ELSE <<>>, ""),
       Class("K", IF where \in {1, 3} THEN << InitMethod(k, body, "f") >> ELSE <<>>, "P"),
       VarDef("o", TRUE, Call(Var("K"), [i \in 1..n |-> Literal(Num(i))])),
       VarDef("after", TRUE, Literal(Num(1))) >>

\* class A { init() { this.a = 1; } }
\* class B < A { init() { this.b = 2; super.init(); } }
\* class C < B { }                                        (kind "inherited")
\* class C < B { init() { this.c = 3; super.init(); } }   (kind "own")
\* var o = <class n>();
SuperInit == Expression(Call(Getattr(Super, "init"), <<>>))

ChainProgram(kind, n) ==
    << Class("A", << Function("init", <<>>,
                       << Expression(Setattr(This, "a", Literal(Num(1)))) >>) >>, ""),
       Class("B", << Function("init", <<>>,
                       << Expression(Setattr(This, "b", Literal(Num(2)))),
                          SuperInit >>) >>, "A"),
       Class("C", IF kind = "own"
                  THEN << Function("init", <<>>,
                            << Expression(Setattr(This, "c", Literal(Num(3)))),
                               SuperInit >>) >>
                  ELSE <<>>, "B"),
       VarDef("o", TRUE, Call(Var(ClassNames[n]), <<>>)) >>

\* the fields the inits of the chain of class n set
ChainFields(kind, n) ==
    [f \in (IF n = 3 /\ kind = "own" THEN {"a", "b", "c"}
            ELSE IF n = 1 THEN {"a"} ELSE {"a", "b"}) |->
        CASE f = "a" -> Num(1) [] f = "b" -> Num(2) [] f = "c" -> Num(3)]

\* var get;
\* fun makeCounter() {
\*   var i = 0;
\*   fun inc() { i = i + 1; return i; }
\*   fun read() { return i; }
\*   get = read;
\*   return inc;
\* }
\* var c = makeCounter();
\* var r1 = c(); var g1 = get();  ...  var rn = c(); var gn = get();
CounterName(pre, j) == pre \o ToString(j)

CounterProgram(n) ==
    << VarDef("get", FALSE, Literal(Nil)),
       Function("makeCounter", <<>>,
         << VarDef("i", TRUE, Literal(Num(0))),
            Function("inc", <<>>,
              << Expression(Assign("i", BinOp(Var("i"), Literal(Num(1)), "add"))),
                 Return(Var("i")) >>),
            Function("read", <<>>, << Return(Var("i")) >>),
            Expression(Assign("get", Var("read"))),
            Return(Var("inc")) >>),
       VarDef("c", TRUE, Call(Var("makeCounter"), <<>>)) >>
    \o [j \in 1..(2 * n) |->
          IF j % 2 = 1
          THEN VarDef(CounterName("r", (j + 1) \div 2), TRUE, Call(Var("c"), <<>>))
          ELSE VarDef(CounterName("g", j \div 2), TRUE, Call(Var("get"), <<>>))]

\* var x = 10;  var g = 0;
\* fun f(x, ..) { g = g + 1; return x; }        (kind "fn")
\* class M { m(x, ..) { g = g + 1; return x; } }   var o = M();   (kind "method")
\* var r = f(1, .., n);     or     var r = o.m(1, .., n);
CallBody == << Expression(Assign("g", BinOp(Var("g"), Literal(Num(1)), "add"))),
               Return(Var("x")) >>

CallProgram(kind, k, n) ==
    << VarDef("x", TRUE, Literal(Num(10))),
       VarDef("g", TRUE, Literal(Num(0))) >>
    \o (IF kind = "fn"
        THEN << Function("f", Take(ParamNames, k), CallBody),
                VarDef("o", FALSE, Literal(Nil)) >>
        ELSE << Class("M", << Function("m", Take(ParamNames, k), CallBody) >>, ""),
                VarDef("o", TRUE, Call(Var("M"), <<>>)) >>)
    \o << VarDef("r", TRUE,
                 Call(IF kind = "fn" THEN Var("f") ELSE Getattr(Var("o"), "m"),
                      [i \in 1..n |-> Literal(Num(i))])) >>

\* whether bit i (from 1) of the mask is set
Bit(mask, i) == (mask \div (2 ^ (i - 1))) % 2 = 1

\* class A { m() { return "A"; } }   class B < A { }   class C < B { m() .. }  ...
\* var o = <class n>();   var r = o.m();
\* class i of the chain defines m when bit i of the mask is set
MroClass(i, mask) ==
    Class(ClassNames[i],
          IF Bit(mask, i)
          THEN << Function("m", <<>>, << Return(Literal(Str(ClassNames[i]))) >>) >>
          ELSE <<>>,
          IF i = 1 THEN "" ELSE ClassNames[i - 1])

MroProgram(n, mask) ==
    [i \in 1..n |-> MroClass(i, mask)]
    \o << VarDef("o", TRUE, Call(Var(ClassNames[n]), <<>>)),
          VarDef("r", TRUE, Call(Getattr(Var("o"), "m"), <<>>)) >>

\* fun f() {}   class K { m() {} }   var o = K();   var b = o.m;
\* var n = 1;   var s = "a";   var t = true;   var z = nil;
AttrPrelude ==
    << Function("f", <<>>, <<>>),
       Class("K", << Function("m", <<>>, <<>>) >>, ""),
       VarDef("o", TRUE, Call(Var("K"), <<>>)),
       VarDef("b", TRUE, Getattr(Var("o"), "m")),
       VarDef("n", TRUE, Literal(Num(1))),
       VarDef("s", TRUE, Literal(Str("a"))),
       VarDef("t", TRUE, Literal(Bool(TRUE))),
       VarDef("z", TRUE, Literal(Nil)) >>

\* the variables holding a value that is no instance, `clock` being a builtin
AttrObjects == {"n", "s", "t", "z", "f", "b", "K", "clock"}

\* attribute names: one no host object has, and names some host objects have
AttrNames == <<"x", "name", "real", "upper", "__class__", "call">>

\* the prelude, then   var r = obj.attr;                          (set = 0)
\*              or     var r = (obj.attr = "v");  var r2 = obj.attr;   (set = 1)
AttrProgram(obj, a, set) ==
    AttrPrelude
    \o (IF set = 0
        THEN << VarDef("r", TRUE, Getattr(Var(obj), AttrNames[a])) >>
        ELSE << VarDef("r", TRUE, Setattr(Var(obj), AttrNames[a], Literal(Str("v")))),
                VarDef("r2", TRUE, Getattr(Var(obj), AttrNames[a])) >>)

\* the field exercise: after the prelude
\*   class P { m() { return "P"; } }   class K < P { }
\*   var o = K();   var p = K();
\* fields of the two instances are written and read
FieldPrelude ==
    << Class("P", << Function("m", <<>>, << Return(Literal(Str("P"))) >>) >>, ""),
       Class("K", <<>>, "P"),
       VarDef("o", TRUE, Call(Var("K"), <<>>)),
       VarDef("p", TRUE, Call(Var("K"), <<>>)) >>

FieldExercise == [name |-> "field", kind |-> "", a |-> 0, b |-> 0, c |-> 0]

\* the variables holding instance 1 and instance 2
FieldVars == <<"o", "p">>

\* attribute names: one no class defines, and the method the class chain has
FieldAttrs == {"x", "m"}

FieldSlots == (1..Len(FieldVars)) \X FieldAttrs

NoWrite == [set |-> FALSE, val |-> Nil]

\* fun mk() { fun inner() {} return inner; }
\* var a = mk();   var b = mk();   class K {}   var o = K();   var p = K();
OpPrelude ==
    << Function("mk", <<>>, << Function("inner", <<>>, <<>>), Return(Var("inner")) >>),
       VarDef("a", TRUE, Call(Var("mk"), <<>>)),
       VarDef("b", TRUE, Call(Var("mk"), <<>>)),
       Class("K", <<>>, ""),
       VarDef("o", TRUE, Call(Var("K"), <<>>)),
       VarDef("p", TRUE, Call(Var("K"), <<>>)) >>

\* the operands of the operator programs: 0, 1, -1, "1", "", true, false,
\* nil, two closures of one declaration, two instances of one class, a
\* class, a native function
Operands ==
    << Literal(Num(0)), Literal(Num(1)), UnaryOp(Literal(Num(1)), "neg"),
       Literal(Str("1")), Literal(Str("")),
       Literal(Bool(TRUE)), Literal(Bool(FALSE)), Literal(Nil),
       Var("a"), Var("b"), Var("o"), Var("p"), Var("K"), Var("clock") >>

\* the kind of value each operand is, and for a number its value
OperandKinds ==
    << "num", "num", "num", "str", "str", "bool", "bool", "nil",
       "fn", "fn", "inst", "inst", "class", "native" >>

\* the prelude, then
\*   var r = X == Y;   var q = X != Y;     (op "eq")
\*   var r = X + Y;                        (op "add")
\*   var r = X / Y;                        (op "truediv")
OpProgram(op, x, y) ==
    OpPrelude
    \o << VarDef("r", TRUE, BinOp(Operands[x], Operands[y], op)) >>
    \o (IF op = "eq"
        THEN << VarDef("q", TRUE, BinOp(Operands[x], Operands[y], "ne")) >>
        ELSE <<>>)

\* the operators that take numbers only, besides the division
NumOps == {"sub", "mul", "gt", "ge", "lt", "le"}

\* the prelude, then   var r = -X;   (op "neg")   or   var r = !X;   (op "not")
UnaryProgram(op, x) ==
    OpPrelude \o << VarDef("r", TRUE, UnaryOp(Operands[x], op)) >>

\* the operator prelude, then
\*   var n = 0;
\*   fun t(v) { n = n + 1; return v; }
\*   var r = X and t(Y);                 (or:  var r = X or t(Y);)
\*   var i = nil;   if (X) i = true; else i = false;
\*   fun loop() { while (X) return true;  return false; }
\*   var w = loop();
\*   var u = !X;
LogicProgram(op, x, y) ==
    OpPrelude
    \o << VarDef("n", TRUE, Literal(Num(0))),
          Function("t", <<"v">>,
            << Expression(Assign("n", BinOp(Var("n"), Literal(Num(1)), "add"))),
               Return(Var("v")) >>),
          VarDef("r", TRUE,
                 IF op = "and"
                 THEN And(Operands[x], Call(Var("t"), << Operands[y] >>))
                 ELSE Or(Operands[x], Call(Var("t"), << Operands[y] >>))),
          VarDef("i", TRUE, Literal(Nil)),
          If(Operands[x], Expression(Assign("i", Literal(Bool(TRUE)))),
             TRUE, Expression(Assign("i", Literal(Bool(FALSE))))),
          Function("loop", <<>>,
            << While(Operands[x], Return(Literal(Bool(TRUE)))),
               Return(Literal(Bool(FALSE))) >>),
          VarDef("w", TRUE, Call(Var("loop"), <<>>)),
          VarDef("u", TRUE, UnaryOp(Operands[x], "not")) >>

\* Most iterations of the loop programs: more than the host's stack takes
MaxLoop == MaxDepth + 2

\* var i = 0;   while (i < n) i = i + 1;
WhileProgram(n) ==
    << VarDef("i", TRUE, Literal(Num(0))),
       While(BinOp(Var("i"), Literal(Num(n)), "lt"),
             Expression(Assign("i", BinOp(Var("i"), Literal(Num(1)), "add")))) >>

\* LoxTransformer.for_init, for_cond, for_incr: what an absent part is
for_init == Literal(Nil)
for_cond == Literal(Bool(TRUE))
for_incr == Literal(Nil)

\* LoxTransformer.for_cmd: the tree a `for` statement becomes
for_cmd(init, cond, incr, body) ==
    LET statements == IF init # Literal(Nil) THEN << init >> ELSE <<>>
        while_body ==
            IF incr # Literal(Nil)
            THEN IF body.t = "Block"
                 THEN Block(body.stmts \o << Expression(incr) >>)
                 ELSE Block(<< body, Expression(incr) >>)
            ELSE body
    IN Block(statements \o << While(cond, while_body) >>)

\* { init; while (cond) { body; incr; } } with body kept as one statement
ForAsWhile(init, cond, incr, body) ==
    Block(<< init, While(cond, Block(<< body, Expression(incr) >>)) >>)

\* the parts of the `for` programs: the loop variable i counts from 0 to n
ForInit == VarDef("i", TRUE, Literal(Num(0)))
ForCond(n) == BinOp(Var("i"), Literal(Num(n)), "lt")
ForIncr == Assign("i", BinOp(Var("i"), Literal(Num(1)), "add"))

\* the bodies:  print i;   { print i; }   { var i = 10; print i; }
\*              { var j = i; print j; }
\* and, when the header has no increment, the body followed by i = i + 1
ForBody(kind, incr) ==
    LET body ==
          CASE kind = "print" -> PrintStmt(Var("i"))
            [] kind = "block" -> Block(<< PrintStmt(Var("i")) >>)
            [] kind = "shadow" -> Block(<< VarDef("i", TRUE, Literal(Num(10))),
                                           PrintStmt(Var("i")) >>)
            [] kind = "local" -> Block(<< VarDef("j", TRUE, Var("i")),
                                          PrintStmt(Var("j")) >>)
    IN IF incr = 1 THEN body ELSE Block(<< body, Expression(ForIncr) >>)

\* for (var i = 0; i < n; i = i + 1) body           (inner = 1, incr = 1)
\* { var i = 0;  for (; i < n; i = i + 1) body }    (inner = 0)
\* for (..; i < n; ) { body  i = i + 1; }           (incr = 0)
\* as the transformer builds the tree
ForProgram(kind, n, inner, incr) ==
    LET hincr == IF incr = 1 THEN ForIncr ELSE for_incr
    IN IF inner = 1
       THEN << for_cmd(ForInit, ForCond(n), hincr, ForBody(kind, incr)) >>
       ELSE << Block(<< ForInit,
                        for_cmd(for_init, ForCond(n), hincr, ForBody(kind, incr)) >>) >>

\* the same programs with the block and the while loop written out
ForReference(kind, n, inner, incr) ==
    LET hincr == IF incr = 1 THEN ForIncr ELSE for_incr
    IN IF inner = 1
       THEN << ForAsWhile(ForInit, ForCond(n), hincr, ForBody(kind, incr)) >>
       ELSE << Block(<< ForInit,
                        ForAsWhile(for_init, ForCond(n), hincr, ForBody(kind, incr)) >>) >>

\* the values the return programs return
RetValues == << Num(1), Str("v"), Nil, Bool(FALSE) >>

\* the ways the return programs nest their `return`
RetKinds == {"plain", "block", "if", "else", "while", "deep", "nested", "none"}

\* print "in"; return x; print "skip";
RetStmts == << PrintStmt(Literal(Str("in"))), Return(Var("x")),
               PrintStmt(Literal(Str("skip"))) >>

\* the body of f: the return statement inside blocks, if and while, followed
\* by a statement that must not run; kind "none" has no return
RetBody(kind) ==
    LET skip == << PrintStmt(Literal(Str("skip"))) >>
        yes == Literal(Bool(TRUE))
        no == Literal(Bool(FALSE))
    IN CASE kind = "plain" -> RetStmts
         [] kind = "block" -> << Block(RetStmts) >> \o skip
         [] kind = "if" -> << If(yes, Block(RetStmts), FALSE, Literal(Nil)) >> \o skip
         [] kind = "else" -> << If(no, skip[1], TRUE, Block(RetStmts)) >> \o skip
         [] kind = "while" -> << While(yes, Block(RetStmts)) >> \o skip
         [] kind = "deep" ->
               << While(yes, Block(<< If(yes, Block(<< Block(RetStmts) >>),
                                         FALSE, Literal(Nil)) >>)) >> \o skip
         [] kind = "nested" ->
               << Function("n", <<>>, << Return(Literal(Str("n"))) >>),
                  Expression(Call(Var("n"), <<>>)) >> \o RetStmts
         [] kind = "none" -> << PrintStmt(Literal(Str("in"))) >>

\* var inner = "unset";
\* fun f(x) { body }               or   class K { f(x) { body } }
\* fun g(x) { inner = f(x); print "back"; return "g"; print "skip"; }
\* var r = g(value);               with K().f(x) for f(x) when f is a method
RetProgram(kind, a, method) ==
    LET callee == IF method = 1
                  THEN Getattr(Call(Var("K"), <<>>), "f")
                  ELSE Var("f")
    IN << VarDef("inner", TRUE, Literal(Str("unset"))),
          IF method = 1
          THEN Class("K", << Function("f", << "x" >>, RetBody(kind)) >>, "")
          ELSE Function("f", << "x" >>, RetBody(kind)),
          Function("g", << "x" >>,
              << Expression(Assign("inner", Call(callee, << Var("x") >>))),
                 PrintStmt(Literal(Str("back"))),
                 Return(Literal(Str("g"))),
                 PrintStmt(Literal(Str("skip"))) >>),
          VarDef("r", TRUE, Call(Var("g"), << Literal(RetValues[a]) >>)) >>

\* the block of the block programs at nesting level k of n:
\* { var x = k + 1; var y = k; z = z + x; print x; { level k + 1 } print x; }
RECURSIVE BlkBlock(_, _)
BlkBlock(k, n) ==
    Block(<< VarDef("x", TRUE, Literal(Num(k + 1))),
             VarDef("y", TRUE, Literal(Num(k))),
             Expression(Assign("z", BinOp(Var("z"), Var("x"), "add"))),
             PrintStmt(Var("x")) >>
          \o (IF k < n THEN << BlkBlock(k + 1, n) >> ELSE <<>>)
          \o << PrintStmt(Var("x")) >>)

\* var x = 1; var z = 0; { n nested blocks } print x; print z; print y;
BlkStmts(n) ==
    << VarDef("x", TRUE, Literal(Num(1))),
       VarDef("z", TRUE, Literal(Num(0))),
       BlkBlock(1, n),
       PrintStmt(Var("x")),
       PrintStmt(Var("z")),
       PrintStmt(Var("y")) >>

\* the block programs: the statements at the top level, or as the body of a
\* function f that is called, or of a method f of a class K
BlkProgram(where, n) ==
    CASE where = "global" -> BlkStmts(n)
      [] where = "fn" ->
            << Function("f", <<>>, BlkStmts(n)),
               Expression(Call(Var("f"), <<>>)) >>
      [] where = "method" ->
            << Class("K", << Function("f", <<>>, BlkStmts(n)) >>, ""),
               Expression(Call(Getattr(Call(Var("K"), <<>>), "f"), <<>>)) >>

\* what the name X is bound to when `class B < X` is declared
BaseKinds == {"unbound", "num", "str", "bool", "nil", "fn", "inst", "class"}

\* the declaration of X, then   class B < X { }   var o = B();
BaseProgram(kind) ==
    (CASE kind = "unbound" -> <<>>
       [] kind = "num" -> << VarDef("X", TRUE, Literal(Num(1))) >>
       [] kind = "str" -> << VarDef("X", TRUE, Literal(Str("s"))) >>
       [] kind = "bool" -> << VarDef("X", TRUE, Literal(Bool(FALSE))) >>
       [] kind = "nil" -> << VarDef("X", FALSE, Literal(Nil)) >>
       [] kind = "fn" -> << Function("X", <<>>, <<>>) >>
       [] kind = "inst" -> << Class("A", <<>>, ""),
                              VarDef("X", TRUE, Call(Var("A"), <<>>)) >>
       [] kind = "class" -> << Class("X", <<>>, "") >>)
    \o << Class("B", <<>>, "X"),
          VarDef("o", TRUE, Call(Var("B"), <<>>)) >>

\* class k of the receiver programs: who() stores `this` in the global s<k>
\* and returns super.who(), or `this` in the root class
ThisClass(k) ==
    Class(ClassNames[k],
          << Function("who", <<>>,
                << Expression(Assign(CounterName("s", k), This)),
                   IF k > 1
                   THEN Return(Call(Getattr(Super, "who"), <<>>))
                   ELSE Return(This) >>) >>,
          IF k > 1 THEN ClassNames[k - 1] ELSE "")

\* the ways the receiver programs call the method of o
ThisKinds == {"direct", "var", "field"}

\* var s1; .. var sn;  class A .. ;  var o = N(); var p = N();
\* var r = o.who();    or  var m = o.who; var r = m();
\*                     or  p.g = o.who; var r = p.g();
ThisProgram(kind, n) ==
    [k \in 1..n |-> VarDef(CounterName("s", k), FALSE, Literal(Nil))]
    \o [k \in 1..n |-> ThisClass(k)]
    \o << VarDef("o", TRUE, Call(Var(ClassNames[n]), <<>>)),
          VarDef("p", TRUE, Call(Var(ClassNames[n]), <<>>)) >>
    \o (CASE kind = "direct" ->
               << VarDef("r", TRUE, Call(Getattr(Var("o"), "who"), <<>>)) >>
          [] kind = "var" ->
               << VarDef("m", TRUE, Getattr(Var("o"), "who")),
                  VarDef("r", TRUE, Call(Var("m"), <<>>)) >>
          [] kind = "field" ->
               << Expression(Setattr(Var("p"), "g", Getattr(Var("o"), "who"))),
                  VarDef("r", TRUE, Call(Getattr(Var("p"), "g"), <<>>)) >>)

\* the method names of the super programs: an ordinary one and the names of
\* the members of SuperInstance
SupNames == {"who", "get", "instance", "superclass"}

\* class A { m() { return "A"; } }     (A has no method when defined = 0)
\* class B < A { test() { return super.m(); } }
\* var r = B().test();
SupProgram(m, defined) ==
    << Class("A",
             IF defined = 1
             THEN << Function(m, <<>>, << Return(Literal(Str("A"))) >>) >>
             ELSE <<>>,
             ""),
       Class("B",
             << Function("test", <<>>,
                   << Return(Call(Getattr(Super, m), <<>>)) >>) >>,
             "A"),
       VarDef("r", TRUE, Call(Getattr(Call(Var("B"), <<>>), "test"), <<>>)) >>

\* the init of class A in the explicit-init programs:
\* init() { this.n = 1; }   or   init() { this.n = 1; return; }
XInitMethod(ret) ==
    Function("init", <<>>,
        << Expression(Setattr(This, "n", Literal(Num(1)))) >>
        \o (IF ret = 1 THEN << Return(Literal(Nil)) >> ELSE <<>>))

\* var r;  class A { init }
\* kind "instance":  var o = A();  r = o.init();
\* kind "super":     class B < A { init() { r = super.init(); } }  var o = B();
XInitProgram(kind, ret) ==
    << VarDef("r", FALSE, Literal(Nil)),
       Class("A", << XInitMethod(ret) >>, "") >>
    \o (IF kind = "instance"
        THEN << VarDef("o", TRUE, Call(Var("A"), <<>>)),
                Expression(Assign("r", Call(Getattr(Var("o"), "init"), <<>>))) >>
        ELSE << Class("B",
                      << Function("init", <<>>,
                            << Expression(Assign("r",
                                  Call(Getattr(Super, "init"), <<>>))) >>) >>,
                      "A"),
                VarDef("o", TRUE, Call(Var("B"), <<>>)) >>)

\* the pre-populated names, and what the first of two runs does with one
RunsNames == << "sqrt", "clock", "max" >>
RunsKinds == {"none", "assign", "declare", "block", "fn"}

\* the first run:   print 1;   or   name = 1;   or   var name = 1;
\*                  or   { name = 1; }   or   fun f() { name = 1; }  f();
RunsFirst(kind, name) ==
    LET assign == Expression(Assign(name, Literal(Num(1))))
    IN CASE kind = "none" -> << PrintStmt(Literal(Num(1))) >>
         [] kind = "assign" -> << assign >>
         [] kind = "declare" -> << VarDef(name, TRUE, Literal(Num(1))) >>
         [] kind = "block" -> << Block(<< assign >>) >>
         [] kind = "fn" -> << Function("f", <<>>, << assign >>),
                              Expression(Call(Var("f"), <<>>)) >>

\* the second run:   var r = name;
RunsSecond(name) == << VarDef("r", TRUE, Var(name)) >>

\* the statement of a call program that makes the call: its last one
CallStmt == Len(CallProgram("fn", 0, 0))

Bodies == {"end", "return", "add", "prop", "name"}

\* the programs run: a program is named by its family and its parameters
Programs ==
    {[name |-> "greet", kind |-> "", a |-> n, b |-> 0, c |-> 0] : n \in 1..MaxChain}
    \cup {[name |-> "new", kind |-> "end", a |-> 0, b |-> 0, c |-> n] : n \in 0..MaxArity}
    \cup {[name |-> "new", kind |-> body, a |-> where, b |-> k, c |-> n] :
            body \in Bodies, where \in 1..3, k \in 0..MaxArity, n \in 0..MaxArity}
    \cup {[name |-> "chain", kind |-> kind, a |-> n, b |-> 0, c |-> 0] :
            kind \in {"inherited", "own"}, n \in 1..3}
    \cup {[name |-> "counter", kind |-> "", a |-> n, b |-> 0, c |-> 0] : n \in 1..MaxCalls}
    \cup {[name |-> "call", kind |-> kind, a |-> 0, b |-> k, c |-> n] :
            kind \in {"fn", "method"}, k \in 0..MaxArity, n \in 0..MaxArity}
    \cup UNION {{[name |-> "mro", kind |-> "", a |-> n, b |-> mask, c |-> 0] :
                    mask \in 0..(2 ^ n - 1)} : n \in 1..MaxChain}
    \cup {[name |-> "op", kind |-> op, a |-> x, b |-> y, c |-> 0] :
            op \in {"eq", "add", "truediv"} \cup NumOps,
            x \in 1..Len(Operands), y \in 1..Len(Operands)}
    \cup {[name |-> "logic", kind |-> op, a |-> x, b |-> y, c |-> 0] :
            op \in {"and", "or"}, x \in 1..Len(Operands), y \in 1..Len(Operands)}
    \cup {[name |-> "while", kind |-> "", a |-> n, b |-> 0, c |-> 0] : n \in 0..MaxLoop}
    \cup {[name |-> "for", kind |-> kind, a |-> n, b |-> inner, c |-> incr] :
            kind \in {"print", "block", "shadow", "local"}, n \in 0..MaxCalls,
            inner \in {0, 1}, incr \in {0, 1}}
    \cup {[name |-> "ret", kind |-> kind, a |-> a, b |-> method, c |-> 0] :
            kind \in RetKinds, a \in 1..Len(RetValues), method \in {0, 1}}
    \cup {[name |-> "blk", kind |-> where, a |-> n, b |-> 0, c |-> 0] :
            where \in {"global", "fn", "method"}, n \in 1..MaxEnvs}
    \cup {[name |-> "base", kind |-> kind, a |-> 0, b |-> 0, c |-> 0] : kind \in BaseKinds}
    \cup {[name |-> "this", kind |-> kind, a |-> n, b |-> 0, c |-> 0] :
            kind \in ThisKinds, n \in 1..MaxChain}
    \cup {[name |-> "sup", kind |-> m, a |-> defined, b |-> 0, c |-> 0] :
            m \in SupNames, defined \in {0, 1}}
    \cup {[name |-> "xinit", kind |-> kind, a |-> ret, b |-> 0, c |-> 0] :
            kind \in {"instance", "super"}, ret \in {0, 1}}
    \cup {[name |-> "unary", kind |-> op, a |-> x, b |-> 0, c |-> 0] :
            op \in {"neg", "not"}, x \in 1..Len(Operands)}
    \cup {[name |-> "runs", kind |-> kind, a |-> n, b |-> 0, c |-> 1] :
            kind \in RunsKinds, n \in 1..Len(RunsNames)}
    \cup {[name |-> "attr", kind |-> obj, a |-> a, b |-> 0, c |-> set] :
            obj \in AttrObjects, a \in 1..Len(AttrNames), set \in {0, 1}}



\* Program.stmts of the program p
Stmts(p) ==
    CASE p.name = "greet" -> GreetProgram(p.a)
      [] p.name = "new" -> NewProgram(p.a, p.b, p.c, p.kind)
      [] p.name = "chain" -> ChainProgram(p.kind, p.a)
      [] p.name = "counter" -> CounterProgram(p.a)
      [] p.name = "call" -> CallProgram(p.kind, p.b, p.c)
      [] p.name = "mro" -> MroProgram(p.a, p.b)
      [] p.name = "attr" -> AttrProgram(p.kind, p.a, p.c)
      [] p.name = "field" -> FieldPrelude
      [] p.name = "op" -> OpProgram(p.kind, p.a, p.b)
      [] p.name = "runs" -> IF p.c = 1 THEN RunsFirst(p.kind, RunsNames[p.a])
                            ELSE RunsSecond(RunsNames[p.a])
      [] p.name = "unary" -> UnaryProgram(p.kind, p.a)
      [] p.name = "xinit" -> XInitProgram(p.kind, p.a)
      [] p.name = "sup" -> SupProgram(p.kind, p.a)
      [] p.name = "this" -> ThisProgram(p.kind, p.a)
      [] p.name = "base" -> BaseProgram(p.kind)
      [] p.name = "blk" -> BlkProgram(p.kind, p.a)
      [] p.name = "ret" -> RetProgram(p.kind, p.a, p.b)
      [] p.name = "while" -> WhileProgram(p.a)
      [] p.name = "for" -> ForProgram(p.kind, p.a, p.b, p.c)
      [] p.name = "logic" -> LogicProgram(p.kind, p.a, p.b)


      [] OTHER -> <<>>

\* the environment exercise: no program, operations on the Ctx objects
EnvExercise == [name |-> "env", kind |-> "", a |-> 0, b |-> 0, c |-> 0]

\* the names and the values of the environment exercise
Names == {"x", "y"}
Vals == {Num(1), Num(2)}

NoOp == [op |-> "none", env |-> 0, name |-> "", val |-> Nil, ok |-> TRUE, res |-> Nil]
NoAssign == [valid |-> FALSE, env |-> 0, val |-> Nil, target |-> 0, redeclared |-> FALSE]

\* the first Ctx on the chain from e whose scope has the name, 0 when none has
RECURSIVE FirstDefiner(_, _, _)
FirstDefiner(hp, e, name) ==
    IF e = 0 THEN 0
    ELSE IF name \in DOMAIN hp.envs[e].scope THEN e
    ELSE FirstDefiner(hp, hp.envs[e].parent, name)

\* whether Ctx a is on the chain from Ctx e to the root
RECURSIVE OnChain(_, _, _)
OnChain(hp, a, e) ==
    IF e = 0 THEN FALSE
    ELSE IF e = a THEN TRUE
    ELSE OnChain(hp, a, hp.envs[e].parent)

\* ------------------------------------------------------------------ the state machine

Init ==
    /\ h = InitHeap
    /\ prog \in Programs \cup {EnvExercise, FieldExercise}
    /\ pc = 1
    /\ status = "running"
    /\ msg = ""
    /\ last = NoOp
    /\ asg = [n \in Names |-> NoAssign]
    /\ wr = [f \in FieldSlots |-> NoWrite]

\* Program.eval: the next statement of the program is evaluated in the global
\* Ctx; an exception ends the run
Step ==
    /\ prog.name # "env"
    /\ status = "running"
    /\ pc <= Len(Stmts(prog))
    /\ LET r == Eval(Stmts(prog)[pc], GlobalEnv, h, 1)
       IN /\ h' = r.h
          /\ pc' = pc + 1
          /\ status' = IF r.st # "ok" THEN r.err
                       ELSE IF pc + 1 > Len(Stmts(prog)) THEN "done"
                       ELSE "running"
          /\ msg' = r.msg
    /\ UNCHANGED <<prog, last, asg, wr>>

\* the Ctx objects a statement can run in: every one but the root, which
\* only holds the builtins
CurrentEnvs == 2..Len(h.envs)

EnvReady ==
    /\ prog.name = "env"
    /\ status = "running"
    /\ pc <= MaxOps

\* Var.eval of the name in Ctx e
EnvLookup(e, name) ==
    /\ EnvReady
    /\ LET r == Eval(Var(name), e, h, 1)
       IN /\ h' = r.h
          /\ status' = IF r.st = "ok" THEN "running" ELSE r.err
          /\ msg' = r.msg
          /\ last' = [op |-> "lookup", env |-> e, name |-> name, val |-> Nil,
                      ok |-> r.st = "ok", res |-> r.v]
    /\ pc' = pc + 1
    /\ UNCHANGED <<prog, asg, wr>>

\* Assign.eval of `name = value` in Ctx e
EnvAssign(e, name, value) ==
    /\ EnvReady
    /\ LET r == Eval(Assign(name, Literal(value)), e, h, 1)
       IN /\ h' = r.h
          /\ status' = IF r.st = "ok" THEN "running" ELSE r.err
          /\ msg' = r.msg
          /\ last' = [op |-> "assign", env |-> e, name |-> name, val |-> value,
                      ok |-> r.st = "ok", res |-> r.v]
          /\ asg' = IF r.st = "ok"
                    THEN [asg EXCEPT ![name] =
                            [valid |-> TRUE, env |-> e, val |-> value,
                             target |-> FirstDefiner(h, e, name),
                             redeclared |-> FALSE]]
                    ELSE asg
    /\ pc' = pc + 1
    /\ UNCHANGED <<prog, wr>>

\* VarDef.eval of `var name = value;` in Ctx e
EnvVarDef(e, name, value) ==
    /\ EnvReady
    /\ LET r == Eval(VarDef(name, TRUE, Literal(value)), e, h, 1)
       IN /\ h' = r.h
          /\ status' = IF r.st = "ok" THEN "running" ELSE r.err
          /\ msg' = r.msg
          /\ last' = [op |-> "vardef", env |-> e, name |-> name, val |-> value,
                      ok |-> r.st = "ok", res |-> r.v]
          /\ asg' = IF r.st = "ok" /\ asg[name].valid /\ asg[name].target = e
                    THEN [asg EXCEPT ![name].redeclared = TRUE]
                    ELSE asg
    /\ pc' = pc + 1
    /\ UNCHANGED <<prog, wr>>

\* Ctx.push as Block.eval does it: a new empty Ctx under Ctx e
EnvPush(e) ==
    /\ EnvReady
    /\ Len(h.envs) < MaxEnvs
    /\ h' = push(h, e, EmptyScope, <<>>)
    /\ last' = [op |-> "push", env |-> e, name |-> "", val |-> Nil,
                ok |-> TRUE, res |-> Nil]
    /\ pc' = pc + 1
    /\ UNCHANGED <<prog, status, msg, asg, wr>>

\* the field exercise is ready once its prelude has run
FieldReady ==
    /\ prog.name = "field"
    /\ status = "done"
    /\ pc <= Len(FieldPrelude) + MaxOps

\* Setattr.eval of `<instance i>.attr = value` in the global Ctx
FieldWrite(i, attr, value) ==
    /\ FieldReady
    /\ LET r == Eval(Setattr(Var(FieldVars[i]), attr, Literal(value)), GlobalEnv, h, 1)
       IN /\ h' = r.h
          /\ status' = IF r.st = "ok" THEN "done" ELSE r.err
          /\ msg' = r.msg
          /\ last' = [op |-> "write", env |-> i, name |-> attr, val |-> value,
                      ok |-> r.st = "ok", res |-> r.v]
          /\ wr' = IF r.st = "ok"
                   THEN [wr EXCEPT ![<<i, attr>>] = [set |-> TRUE, val |-> value]]
                   ELSE wr
    /\ pc' = pc + 1
    /\ UNCHANGED <<prog, asg>>

\* Getattr.eval of `<instance i>.attr` in the global Ctx
FieldRead(i, attr) ==
    /\ FieldReady
    /\ LET r == Eval(Getattr(Var(FieldVars[i]), attr), GlobalEnv, h, 1)
       IN /\ h' = r.h
          /\ status' = IF r.st = "ok" THEN "done" ELSE r.err
          /\ msg' = r.msg
          /\ last' = [op |-> "read", env |-> i, name |-> attr, val |-> Nil,
                      ok |-> r.st = "ok", res |-> r.v]
    /\ pc' = pc + 1
    /\ UNCHANGED <<prog, asg, wr>>

\* a second program is run after the first has ended, in the same host
\* process: Ctx() gives it a new global Ctx over a new outermost Ctx whose
\* scope is the BUILTINS dict of the module, as the first run left it
NewRun ==
    /\ prog.name = "runs"
    /\ prog.c = 1
    /\ status # "running"
    /\ h' = [InitHeap EXCEPT !.envs = CtxOver(h.envs[1].scope, h.envs[1].keys)]
    /\ prog' = [prog EXCEPT !.c = 2]
    /\ pc' = 1
    /\ status' = "running"
    /\ msg' = ""
    /\ UNCHANGED <<last, asg, wr>>

Next ==
    \/ Step
    \/ NewRun
    \/ \E e \in CurrentEnvs, name \in Names : EnvLookup(e, name)
    \/ \E e \in CurrentEnvs, name \in Names, value \in Vals : EnvAssign(e, name, value)
    \/ \E e \in CurrentEnvs, name \in Names, value \in Vals : EnvVarDef(e, name, value)
    \/ \E e \in CurrentEnvs : EnvPush(e)
    \/ \E i \in 1..Len(FieldVars), attr \in FieldAttrs, value \in Vals :
          FieldWrite(i, attr, value)
    \/ \E i \in 1..Len(FieldVars), attr \in FieldAttrs : FieldRead(i, attr)

Spec == Init /\ [][Next]_vars

\* ------------------------------------------------------------------ properties

\* the scope of the global Ctx
Global == h.envs[GlobalEnv].scope

Ended == pc > Len(Stmts(prog))

\* C1: with the chain A, B < A, C < B, ... where every greet but A's returns
\* super.greet() + <its class name>, the call <last class>().greet() ends and
\* gives "A", "AB", "ABC", ...: each super.greet resolves from the base of
\* the class that defines the calling method, also when that method was
\* itself reached through super.
C1_SuperFromDefiningClass ==
    (prog.name = "greet" /\ Ended) =>
        /\ status = "done"
        /\ "r" \in DOMAIN Global
        /\ Global["r"] = Str(GreetExpected(prog.a))

\* the error the body of init raises in the "add", "prop" and "name" programs
InitBodyError(body) ==
    CASE body = "add" -> <<"LoxError", "Operands must be two numbers or two strings.">>
      [] body = "prop" -> <<"LoxError", "Undefined property 'nope'.">>
      [] body = "name" -> <<"NameError", "nope">>

\* C2: a runtime error raised while the body of init runs during a class
\* call goes out of the class call unchanged and ends the run: the call
\* gives no instance and the error is not replaced by another one.
C2_InitErrorPropagates ==
    (/\ prog.name = "new"
     /\ prog.kind \in {"add", "prop", "name"}
     /\ prog.a # 0
     /\ prog.b = prog.c
     /\ pc > 3) =>
        /\ <<status, msg>> = InitBodyError(prog.kind)
        /\ "o" \notin DOMAIN Global

\* C3: a closure captures its environment by reference: the n-th call of
\* the closure that makeCounter returned gives n, and the other closure over
\* the same environment reads n after it, the defining call being over.
C3_ClosureSharesEnvironment ==
    prog.name = "counter" =>
        /\ status \in {"running", "done"}
        /\ \A j \in 1..prog.a :
              /\ CounterName("r", j) \in DOMAIN Global
                    => Global[CounterName("r", j)] = Num(j)
              /\ CounterName("g", j) \in DOMAIN Global
                    => Global[CounterName("g", j)] = Num(j)

C3_Witness ==
    /\ prog.name = "counter"
    /\ prog.a = MaxCalls
    /\ status = "done"
    /\ CounterName("g", MaxCalls) \in DOMAIN Global

\* C4 as claimed: after assign(E, n, v) succeeded, every later lookup of n
\* from E or from a descendant of E gives v until n is assigned again.
C4_LookupAfterAssign ==
    (/\ last.op = "lookup"
     /\ asg[last.name].valid
     /\ OnChain(h, asg[last.name].env, last.env)) =>
        /\ last.ok
        /\ last.res = asg[last.name].val

\* C4 as amended: after assign(E, n, v) succeeded, a later lookup of n from E
\* or from a descendant D of E gives v until n is assigned again, when the
\* first Ctx on the chain from D that defines n is the one whose binding the
\* assignment changed (no nearer Ctx declares n) and n was not declared
\* again in that Ctx since.
C4_LookupAfterAssignUnshadowed ==
    (/\ last.op = "lookup"
     /\ asg[last.name].valid
     /\ OnChain(h, asg[last.name].env, last.env)
     /\ FirstDefiner(h, last.env, last.name) = asg[last.name].target
     /\ ~asg[last.name].redeclared) =>
        /\ last.ok
        /\ last.res = asg[last.name].val

\* an assignment made in a Ctx to a name bound further out, read back from a
\* Ctx below it
C4_Witness ==
    /\ last.op = "lookup"
    /\ asg[last.name].valid
    /\ asg[last.name].target # asg[last.name].env
    /\ last.env # asg[last.name].env
    /\ OnChain(h, asg[last.name].env, last.env)
    /\ FirstDefiner(h, last.env, last.name) = asg[last.name].target
    /\ ~asg[last.name].redeclared
    /\ last.res = asg[last.name].val

\* C5: an assignment creates no binding: it changes the value of the name in
\* the first Ctx of the chain that defines it and nothing else, the names of
\* every scope staying what they were; when no Ctx of the chain defines the
\* name it fails and leaves every Ctx as it was.
C5_AssignNeverCreates ==
    [][last'.op = "assign" /\ pc' = pc + 1 =>
        LET e == last'.env
            name == last'.name
            t == FirstDefiner(h, e, name)
        IN /\ Len(h'.envs) = Len(h.envs)
           /\ \A i \in 1..Len(h.envs) :
                 DOMAIN h'.envs[i].scope = DOMAIN h.envs[i].scope
           /\ IF t = 0
              THEN /\ ~last'.ok
                   /\ status' \notin {"running", "done"}
                   /\ h' = h
              ELSE /\ last'.ok
                   /\ h'.envs[t].scope[name] = last'.val
                   /\ \A i \in 1..Len(h.envs) :
                         \A n \in DOMAIN h.envs[i].scope :
                            (i # t \/ n # name)
                               => h'.envs[i].scope[n] = h.envs[i].scope[n]]_vars

\* an assignment from a Ctx that does not define the name itself
C5_Witness ==
    /\ last.op = "assign"
    /\ last.ok
    /\ last.name \notin DOMAIN h.envs[last.env].scope
    /\ FirstDefiner(h, last.env, last.name) # 0

\* C6: a declaration binds the name in the current Ctx only; a name the
\* current scope already has is an error that leaves the binding as it is
\* when the current Ctx is not the global one, and is bound again when it is.
C6_VarDefCurrentOnly ==
    [][last'.op = "vardef" /\ pc' = pc + 1 =>
        LET e == last'.env
            name == last'.name
        IN /\ \A i \in 1..Len(h.envs) : i # e => h'.envs[i] = h.envs[i]
           /\ IF name \in DOMAIN h.envs[e].scope /\ e # GlobalEnv
              THEN /\ ~last'.ok
                   /\ status' \notin {"running", "done"}
                   /\ h' = h
              ELSE /\ last'.ok
                   /\ h'.envs[e].scope = Put(h.envs[e].scope, name, last'.val)
                   /\ h'.envs[e].parent = h.envs[e].parent]_vars

\* a declaration refused in a block, the name being declared there already
\* and bound in the global Ctx too
C6_Witness ==
    /\ last.op = "vardef"
    /\ ~last.ok
    /\ last.env # GlobalEnv
    /\ last.name \in DOMAIN Global

\* a declaration of a name the global Ctx already has, that bound it again
C6_WitnessGlobal ==
    /\ last.op = "vardef"
    /\ last.ok
    /\ last.env = GlobalEnv
    /\ asg[last.name].redeclared

\* C7: a lookup gives the value of the innermost Ctx of the chain that
\* defines the name; when none does it fails with an unbound-name error.
C7_LookupInnermost ==
    last.op = "lookup" =>
        LET t == FirstDefiner(h, last.env, last.name)
        IN IF t = 0
           THEN ~last.ok /\ status = "NameError"
           ELSE last.ok /\ last.res = h.envs[t].scope[last.name]

\* a lookup from a Ctx whose binding shadows a different outer one
C7_Witness ==
    /\ last.op = "lookup"
    /\ last.ok
    /\ last.name \in DOMAIN h.envs[last.env].scope
    /\ FirstDefiner(h, h.envs[last.env].parent, last.name) # 0
    /\ h.envs[FirstDefiner(h, h.envs[last.env].parent, last.name)].scope[last.name]
          # last.res

\* the field the init that the chain of K finds sets
InitField == IF prog.a \in {1, 3} THEN "f" ELSE "p"

\* C8: calling a class whose chain defines init (in the class or in an
\* ancestor) with as many arguments as init has parameters runs that init on
\* the new instance and gives that instance, whatever the body returns, a
\* bare `return;` included; the fields init set are on the instance.
C8_InitYieldsInstance ==
    /\ (/\ prog.name = "new"
        /\ prog.a # 0
        /\ prog.b = prog.c
        /\ prog.kind \in {"end", "return"}
        /\ pc > 3) =>
           /\ status \in {"running", "done"}
           /\ "o" \in DOMAIN Global
           /\ Global["o"] = InstRef(1)
           /\ Len(h.insts) = 1
           /\ h.classes[h.insts[1].cls].name = "K"
           /\ h.insts[1].fields =
                 [n \in {InitField} |-> IF prog.b > 0 THEN Num(1) ELSE Num(7)]
    /\ (prog.name = "chain" /\ Ended) =>
           /\ status = "done"
           /\ "o" \in DOMAIN Global
           /\ Global["o"] = InstRef(1)
           /\ h.classes[h.insts[1].cls].name = ClassNames[prog.a]
           /\ h.insts[1].fields = ChainFields(prog.kind, prog.a)

\* C9: a class call takes as many arguments as the init of its chain has
\* parameters, none when the chain has no init: without init, an argument is
\* an error and no argument gives a new instance with no field; with an init
\* of k parameters, a number of arguments other than k is an error, and k
\* arguments are taken: the body of init is entered.
C9_ClassCallArity ==
    (prog.name = "new" /\ pc > 3) =>
        /\ (prog.a = 0 /\ prog.c > 0) =>
              /\ status \notin {"running", "done"}
              /\ "o" \notin DOMAIN Global
        /\ (prog.a = 0 /\ prog.c = 0) =>
              /\ status \in {"running", "done"}
              /\ "o" \in DOMAIN Global
              /\ Global["o"] = InstRef(1)
              /\ h.insts[1].fields = EmptyScope
        /\ (prog.a # 0 /\ prog.b # prog.c) =>
              /\ status \notin {"running", "done"}
              /\ "o" \notin DOMAIN Global
        /\ (prog.a # 0 /\ prog.b = prog.c) =>
              /\ status # "ValueError"
              /\ InitField \in DOMAIN h.insts[1].fields

\* a class with no init called with two arguments
C9_Witness ==
    /\ prog.name = "new"
    /\ prog.a = 0
    /\ prog.c = 2
    /\ pc > 3
    /\ status = "LoxError"

\* the Ctx objects made by the step
NewEnvs == (Len(h.envs) + 1)..Len(h'.envs)

\* C10: a call of a function or of a method with a number of arguments other
\* than its number of parameters is an error raised before the body runs and
\* changes no Ctx; with the same number, the call makes exactly one child of
\* the captured Ctx, holding the parameters, which shadow the outer names
\* and leave them as they were.
C10_CallArity ==
    [][prog.name = "call" /\ pc = CallStmt /\ pc' = CallStmt + 1 =>
        LET captured == IF prog.kind = "fn" THEN Global["f"].v.ctx
                        ELSE Len(h.envs) + 1
            params == Take(ParamNames, prog.b)
            args == [i \in 1..prog.c |-> Num(i)]
        IN /\ SubSeq(h'.envs, 1, Len(h.envs))
                 = [h.envs EXCEPT ![GlobalEnv] = h'.envs[GlobalEnv]]
           /\ prog.kind = "method" =>
                 /\ h'.envs[captured].parent = GlobalEnv
                 /\ h'.envs[captured].scope = [n \in {"this"} |-> Global["o"]]
           /\ IF prog.b # prog.c
              THEN /\ status' \notin {"running", "done"}
                   /\ h'.envs[GlobalEnv] = h.envs[GlobalEnv]
                   /\ Len(h'.envs) = captured
                   /\ h'.out = h.out
                   /\ h'.insts = h.insts
              ELSE /\ status' = "done"
                   /\ Cardinality({i \in NewEnvs : h'.envs[i].parent = captured}) = 1
                   /\ Len(h'.envs) = captured + 1
                   /\ h'.envs[captured + 1].parent = captured
                   /\ h'.envs[captured + 1].scope = Zip(params, args)
                   /\ h'.envs[GlobalEnv].scope =
                         [n \in DOMAIN Global \cup {"r"} |->
                            CASE n = "r" -> IF prog.b > 0 THEN Num(1) ELSE Num(10)
                              [] n = "g" -> Num(1)
                              [] OTHER -> Global[n]]]_vars

\* a function of one parameter x called with one argument: x of the global
\* Ctx is still 10 and the call gave the argument
C10_Witness ==
    /\ prog.name = "call"
    /\ prog.kind = "fn"
    /\ prog.b = 1
    /\ prog.c = 1
    /\ status = "done"
    /\ Global["x"] = Num(10)
    /\ Global["r"] = Num(1)

\* the classes of the chain up to class c that define m in an mro program
MroDefiners(c) == {i \in 1..c : Bit(prog.b, i)}

\* the nearest of them: the class itself first, then its bases in order
MroNearest(c) == CHOOSE i \in MroDefiners(c) : \A j \in MroDefiners(c) : j <= i

\* C11: method resolution is linear. In a chain of classes where any subset
\* defines m, resolving m on any class gives the method of the nearest class
\* on the base chain whose table has m, together with that class, and fails
\* with LoxError when none has; o.m() on an instance of the last class runs
\* the nearest definition, or fails with "Undefined property 'm'.".
C11_MethodResolutionLinear ==
    prog.name = "mro" =>
        /\ \A c \in 1..Len(h.classes) :
              LET r == get_method_with_class(h, c, "m")
              IN IF MroDefiners(c) = {}
                 THEN r.st = "LoxError"
                 ELSE /\ r.st = "ok"
                      /\ r.cls = MroNearest(c)
                      /\ r.method = h.classes[MroNearest(c)].methods["m"]
        /\ Ended =>
              IF MroDefiners(prog.a) = {}
              THEN /\ status = "LoxError"
                   /\ msg = "Undefined property 'm'."
                   /\ "r" \notin DOMAIN Global
              ELSE /\ status = "done"
                   /\ Global["r"] = Str(ClassNames[MroNearest(prog.a)])

\* an inherited method that overrides a more distant one has been called
C11_Witness ==
    /\ prog.name = "mro"
    /\ Ended
    /\ prog.a >= 3
    /\ MroDefiners(prog.a) # {}
    /\ MroNearest(prog.a) < prog.a
    /\ \E i \in MroDefiners(prog.a) : i < MroNearest(prog.a)
    /\ Global["r"] = Str(ClassNames[MroNearest(prog.a)])

\* a chain where no class defines m has been tried
C11_WitnessUndefined ==
    /\ prog.name = "mro"
    /\ Ended
    /\ prog.a >= 2
    /\ MroDefiners(prog.a) = {}
    /\ status = "LoxError"

\* C12: reading obj.attr where obj is no instance (a number, a string, a
\* boolean, nil, a function, a bound method, a class, a native function) is
\* an error for every attribute name: the statement `var r = obj.attr;`
\* never binds r.
C12_GetattrNonInstanceFails ==
    (prog.name = "attr" /\ prog.c = 0 /\ Ended) =>
        /\ status \notin {"done", "running"}
        /\ "r" \notin DOMAIN Global

\* C13: writing obj.attr = v where obj is no instance is an error for every
\* attribute name and changes no runtime object: once the statement
\* `var r = (obj.attr = "v");` has run, the run has ended in an error, r is
\* not bound and no object has taken an attribute.
C13_SetattrNonInstanceFails ==
    (prog.name = "attr" /\ prog.c = 1 /\ pc > Len(AttrPrelude) + 1) =>
        /\ status \notin {"done", "running"}
        /\ "r" \notin DOMAIN Global
        /\ h.pyattrs = <<>>

\* C14: a field written on an instance is what every later read of it gives
\* until it is written again, declared or not and also when the class chain
\* has a method of that name; a write changes the written field only: no
\* other field of the instance, no field of another instance, no class.
C14_FieldReadAfterWrite ==
    [][(prog.name = "field" /\ pc' = pc + 1 /\ pc > Len(FieldPrelude)) =>
         /\ (last'.op = "read" /\ wr[<<last'.env, last'.name>>].set) =>
               /\ last'.ok
               /\ last'.res = wr[<<last'.env, last'.name>>].val
               /\ h'.insts = h.insts
         /\ last'.op = "write" =>
               /\ last'.ok
               /\ h'.classes = h.classes
               /\ Len(h'.insts) = Len(h.insts)
               /\ \A j \in 1..Len(h.insts) :
                     /\ h'.insts[j].cls = h.insts[j].cls
                     /\ DOMAIN h'.insts[j].fields =
                           DOMAIN h.insts[j].fields
                             \cup (IF j = last'.env THEN {last'.name} ELSE {})
                     /\ \A f \in DOMAIN h.insts[j].fields :
                           (j # last'.env \/ f # last'.name) =>
                               h'.insts[j].fields[f] = h.insts[j].fields[f]
    ]_vars

\* a field named like the inherited method m has been read on instance 1
\* after both instances had their m written, with different values
C14_Witness ==
    /\ prog.name = "field"
    /\ last.op = "read" /\ last.env = 1 /\ last.name = "m"
    /\ wr[<<1, "m">>].set /\ wr[<<2, "m">>].set
    /\ wr[<<1, "m">>].val # wr[<<2, "m">>].val
    /\ last.res = wr[<<1, "m">>].val

\* the operands that are numbers, strings, booleans or nil
Primitive(i) == OperandKinds[i] \in {"num", "str", "bool", "nil"}

\* the statement `var r = X op Y;` of an operator program has run
OpDone(op) == prog.name = "op" /\ prog.kind = op /\ pc > Len(OpPrelude) + 1

\* C15: == never raises an error: X == Y is false for two values of
\* different kinds, is whether the two are the same value for two numbers,
\* strings, booleans or nils, and is a boolean for every pair; X != Y is
\* its negation.
C15_EqStrictTotal ==
    OpDone("eq") =>
        /\ status \in {"running", "done"}
        /\ Global["r"].k = "bool"
        /\ OperandKinds[prog.a] # OperandKinds[prog.b] => Global["r"] = Bool(FALSE)
        /\ (Primitive(prog.a) /\ Primitive(prog.b)) =>
               Global["r"] = Bool(prog.a = prog.b)
        /\ Ended => Global["q"] = Bool(~Global["r"].v)

\* the number an operand that is a number stands for, and the string an
\* operand that is a string stands for
OperandNum(i) == CASE i = 1 -> 0 [] i = 2 -> 1 [] i = 3 -> 0 - 1
OperandStr(i) == CASE i = 4 -> "1" [] i = 5 -> ""

\* C16: X + Y is the sum of two numbers and the concatenation of two
\* strings, and for every other pair of operands (a number and a string, a
\* boolean or nil with anything, any object) it raises the LoxError
\* "Operands must be two numbers or two strings.".
C16_AddOverload ==
    OpDone("add") =>
        IF OperandKinds[prog.a] = "num" /\ OperandKinds[prog.b] = "num"
        THEN /\ status = "done"
             /\ Global["r"] = Num(OperandNum(prog.a) + OperandNum(prog.b))
        ELSE IF OperandKinds[prog.a] = "str" /\ OperandKinds[prog.b] = "str"
        THEN /\ status = "done"
             /\ Global["r"] = Str(OperandStr(prog.a) \o OperandStr(prog.b))
        ELSE /\ status = "LoxError"
             /\ msg = "Operands must be two numbers or two strings."
             /\ "r" \notin DOMAIN Global

\* true + 1 has been refused
C16_Witness ==
    /\ OpDone("add")
    /\ Operands[prog.a] = Literal(Bool(TRUE))
    /\ Operands[prog.b] = Literal(Num(1))
    /\ status = "LoxError"
    /\ msg = "Operands must be two numbers or two strings."

\* 1 + "1" has been refused
C16_WitnessMixed ==
    /\ OpDone("add")
    /\ OperandKinds[prog.a] = "num" /\ OperandKinds[prog.b] = "str"
    /\ status = "LoxError"

\* C17: a number (positive, negative or zero) divided by zero raises the
\* runtime error of a division by zero, and the division gives no value.
C17_DivisionByZero ==
    (OpDone("truediv") /\ OperandKinds[prog.a] = "num"
       /\ OperandKinds[prog.b] = "num" /\ OperandNum(prog.b) = 0) =>
        /\ status = "LoxError"
        /\ msg = "Divisão por zero."
        /\ "r" \notin DOMAIN Global

\* -1 / 0 has been refused
C17_Witness ==
    /\ OpDone("truediv")
    /\ OperandKinds[prog.a] = "num" /\ OperandNum(prog.a) < 0
    /\ OperandKinds[prog.b] = "num" /\ OperandNum(prog.b) = 0
    /\ status = "LoxError"

\* the value operand i has in the global Ctx
OperandValue(i) ==
    CASE OperandKinds[i] = "num" -> Num(OperandNum(i))
      [] OperandKinds[i] = "str" -> Str(OperandStr(i))
      [] Operands[i].t = "Literal" -> Operands[i].value
      [] Operands[i].name = "clock" -> Native("clock")
      [] OTHER -> Global[Operands[i].name]

\* the operands lox takes as false: nil and false, nothing else
OperandFalsey(i) == Operands[i] \in {Literal(Nil), Literal(Bool(FALSE))}

\* C18: `X and t(Y)` gives the value of X and does not call t when X is
\* falsey, and otherwise gives the value of Y; `X or t(Y)` gives the value
\* of X and does not call t when X is truthy, and otherwise gives the value
\* of Y; only nil and false are falsey (0 and "" are truthy), and `if`,
\* `while` and `!` take X the same way.
C18_ShortCircuit ==
    (prog.name = "logic" /\ Ended) =>
        /\ status = "done"
        /\ IF OperandFalsey(prog.a) = (prog.kind = "and")
           THEN Global["r"] = OperandValue(prog.a) /\ Global["n"] = Num(0)
           ELSE Global["r"] = OperandValue(prog.b) /\ Global["n"] = Num(1)
        /\ Global["i"] = Bool(~OperandFalsey(prog.a))
        /\ Global["w"] = Bool(~OperandFalsey(prog.a))
        /\ Global["u"] = Bool(OperandFalsey(prog.a))

\* `0 and t(nil)` has given nil, having called t: 0 is truthy
C18_Witness ==
    /\ prog.name = "logic" /\ prog.kind = "and" /\ Ended
    /\ Operands[prog.a] = Literal(Num(0))
    /\ Operands[prog.b] = Literal(Nil)
    /\ Global["r"] = Nil
    /\ Global["n"] = Num(1)

\* `"" or t(1)` has given "", not having called t
C18_WitnessOr ==
    /\ prog.name = "logic" /\ prog.kind = "or" /\ Ended
    /\ Operands[prog.a] = Literal(Str(""))
    /\ Global["r"] = Str("")
    /\ Global["n"] = Num(0)

\* C19: a while loop of any number of iterations completes: the host's call
\* stack does not grow with the iterations. `var i = 0; while (i < n)
\* i = i + 1;` ends with i = n for every n.
C19_WhileCompletes ==
    (prog.name = "while" /\ Ended) =>
        /\ status = "done"
        /\ Global["i"] = Num(prog.a)

\* the run of the block with the while loop that the `for` program stands for
ForExpected ==
    ExecStmts(ForReference(prog.kind, prog.a, prog.b, prog.c), 1, GlobalEnv, InitHeap, 1)

\* the Ctx of the block that declares the loop variable
ForEnv == GlobalEnv + 1

\* C20: a `for` statement has the effect of { init; while (cond) { body;
\* incr; } } with the body kept as one statement: both runs end the same
\* way, print the same, and leave the same bindings in the global Ctx and in
\* the Ctx of the loop variable.
C20_ForAsWhile ==
    (prog.name = "for" /\ Ended) =>
        /\ status = (IF ForExpected.st = "ok" THEN "done" ELSE ForExpected.err)
        /\ h.out = ForExpected.h.out
        /\ Global = ForExpected.h.envs[GlobalEnv].scope
        /\ h.envs[ForEnv].scope = ForExpected.h.envs[ForEnv].scope

\* C21: a `return` at any nesting depth of blocks, if and while inside a
\* function body ends exactly the innermost enclosing call, which gives the
\* returned value: no later statement or iteration of that call runs, and the
\* caller goes on and returns its own value. A body with no return gives nil.
C21_ReturnEndsCall ==
    (prog.name = "ret" /\ status # "running") =>
        /\ status = "done"
        /\ Global["inner"] = (IF prog.kind = "none" THEN Nil ELSE RetValues[prog.a])
        /\ Global["r"] = Str("g")
        /\ h.out = << "in", "back" >>

\* a return inside while, if and two blocks of a method body has ended a run
C21_Witness ==
    /\ prog.name = "ret" /\ prog.kind = "deep" /\ prog.b = 1
    /\ status = "done"
    /\ Global["inner"] = RetValues[prog.a]

\* a body with no return has given nil
C21_WitnessNone ==
    /\ prog.name = "ret" /\ prog.kind = "none"
    /\ status = "done"
    /\ Global["inner"] = Nil

\* the Ctx that encloses the outermost block of a block program: the global
\* one, the one of the call of f, or the one of the call of the bound method
BlkEnclosing ==
    CASE prog.kind = "global" -> GlobalEnv
      [] prog.kind = "fn" -> GlobalEnv + 1
      [] prog.kind = "method" -> GlobalEnv + 2

\* what a block program prints before `print y` fails: x of every level on
\* the way in and on the way out, then the outer x and z
BlkOutput(n) ==
    [i \in 1..(2 * n) |-> ToString(IF i <= n THEN i + 1 ELSE 2 * n - i + 2)]
    \o << "1", ToString((n * (n + 3)) \div 2) >>

\* C22: a block runs its statements in order in a new child Ctx and leaves
\* the names of the enclosing Ctx as they were: x and y declared in the block
\* are bound in the block's own Ctx, the outer x keeps its value, y is
\* undefined after the block, and the assignments to the outer z stay.
C22_BlockScope ==
    (prog.name = "blk" /\ status # "running") =>
        /\ status = "NameError" /\ msg = "y"
        /\ h.out = BlkOutput(prog.a)
        /\ DOMAIN h.envs[BlkEnclosing].scope = {"x", "z"}
        /\ h.envs[BlkEnclosing].scope["x"] = Num(1)
        /\ h.envs[BlkEnclosing].scope["z"] = Num((prog.a * (prog.a + 3)) \div 2)
        /\ \A k \in 1..prog.a :
              /\ h.envs[BlkEnclosing + k].parent = BlkEnclosing + k - 1
              /\ DOMAIN h.envs[BlkEnclosing + k].scope = {"x", "y"}
              /\ h.envs[BlkEnclosing + k].scope["x"] = Num(k + 1)

\* two nested blocks in a function body have run and the call has gone on
\* to print the outer x and z
C22_Witness ==
    /\ prog.name = "blk" /\ prog.kind = "fn" /\ prog.a = 2
    /\ status = "NameError"
    /\ Len(h.out) = 6

\* C23: every class object a class declaration has produced has a base that
\* is absent or a class object, and `class B < X` with X unbound is an error.
C23_BaseIsClass ==
    /\ \A c \in 1..Len(h.classes) : h.classes[c].base.k \in {"nil", "class"}
    /\ (prog.name = "base" /\ prog.kind = "unbound" /\ status # "running")
          => status = "KeyError"

\* the receiver of the receiver programs: o, the first instance created
Receiver == InstRef(1)

\* C24: a method obtained from an instance or through super stays bound to
\* the original receiver: every `this` evaluated in who(), at every level of
\* the super chain that runs, is o, also when the bound method was stored in
\* a variable or in a field of the instance p and called later; a call that
\* ends gives o.
C24_ThisIsReceiver ==
    prog.name = "this" =>
        /\ \A k \in 1..prog.a :
              CounterName("s", k) \in DOMAIN Global
                 => Global[CounterName("s", k)] \in {Nil, Receiver}
        /\ status = "done" =>
              /\ Global["r"] = Receiver
              /\ \A k \in 1..prog.a : Global[CounterName("s", k)] = Receiver
        /\ (prog.a <= 2 /\ status # "running") => status = "done"

\* the bound method stored in a field of p has run through super to the root
\* class, where `this` was o
C24_Witness ==
    /\ prog.name = "this" /\ prog.kind = "field" /\ prog.a = 2
    /\ status = "done"
    /\ Global["s1"] = Receiver
    /\ Global["p"] # Receiver

\* C25: for every name m, super.m is resolved in the method chain of the
\* base class: the call super.m() runs A's method m when A defines it and is
\* an undefined-property error otherwise, also for the names get, instance
\* and superclass.
C25_SuperGetsMethod ==
    (prog.name = "sup" /\ status # "running") =>
        IF prog.a = 1
        THEN status = "done" /\ Global["r"] = Str("A")
        ELSE status = "LoxError"

\* C26: an init invoked explicitly on an existing instance, as o.init() or
\* as super.init() from the initializer of a subclass, evaluates to the
\* instance itself, whatever the body of init returns.
C26_ExplicitInitYieldsInstance ==
    (prog.name = "xinit" /\ status # "running") =>
        /\ status = "done"
        /\ Global["o"] = InstRef(1)
        /\ Global["r"] = Global["o"]

\* the result of a numbers-only operator on the numbers x and y
NumResult(op, x, y) ==
    CASE op = "sub" -> Num(x - y)
      [] op = "mul" -> Num(x * y)
      [] op = "gt" -> Bool(x > y)
      [] op = "ge" -> Bool(x >= y)
      [] op = "lt" -> Bool(x < y)
      [] op = "le" -> Bool(x <= y)

\* the statement of a unary program that applies the operator has run
UnaryDone(op) == prog.name = "unary" /\ prog.kind = op /\ pc > Len(OpPrelude) + 1

\* C27: -, *, /, >, >=, <, <= raise "Operands must be numbers." whenever an
\* operand is not a number, true and false being no numbers, and take two
\* numbers; unary - raises "Operand must be a number." for every operand
\* that is not a number and negates a number; ! never raises and gives the
\* negated truthiness.
C27_NumbersOnly ==
    /\ \A op \in NumOps \cup {"truediv"} :
          (OpDone(op) /\ (OperandKinds[prog.a] # "num" \/ OperandKinds[prog.b] # "num")) =>
              /\ status = "LoxError"
              /\ msg = "Operands must be numbers."
              /\ "r" \notin DOMAIN Global
    /\ \A op \in NumOps :
          (OpDone(op) /\ OperandKinds[prog.a] = "num" /\ OperandKinds[prog.b] = "num") =>
              /\ status = "done"
              /\ Global["r"] = NumResult(op, OperandNum(prog.a), OperandNum(prog.b))
    /\ UnaryDone("neg") =>
          IF OperandKinds[prog.a] = "num"
          THEN status = "done" /\ Global["r"] = Num(0 - OperandNum(prog.a))
          ELSE /\ status = "LoxError"
               /\ msg = "Operand must be a number."
               /\ "r" \notin DOMAIN Global
    /\ UnaryDone("not") =>
          /\ status = "done"
          /\ Global["r"] = Bool(OperandFalsey(prog.a))

\* 1 < false has been refused
C27_Witness ==
    /\ OpDone("lt")
    /\ Operands[prog.a] = Literal(Num(1))
    /\ Operands[prog.b] = Literal(Bool(FALSE))
    /\ status = "LoxError"
    /\ msg = "Operands must be numbers."

\* -true has been refused
C27_WitnessNeg ==
    /\ UnaryDone("neg")
    /\ Operands[prog.a] = Literal(Bool(TRUE))
    /\ status = "LoxError"
    /\ msg = "Operand must be a number."

\* C28: two runs that each start from a fresh global environment are
\* independent: the second run starts in the state the first started in, and
\* a pre-populated name resolves in it to its native function, whatever the
\* first run did, an assignment to that name included.
C28_RunsIndependent ==
    (prog.name = "runs" /\ prog.c = 2) =>
        /\ pc = 1 => h = InitHeap
        /\ status # "running" =>
              /\ status = "done"
              /\ Global["r"] = Native(RunsNames[prog.a])

====
